---- MODULE Spec2Model ----
(***************************************************************************)
(* Verification model of Senflare-DNS-IP (Node.js).                        *)
(*                                                                         *)
(*   SpecGeo : start() / main() of src/index.js together with the          *)
(*             geolocation cache of src/geoResolver.js (load, cleanup,     *)
(*             the two lookup passes, save).                               *)
(*   SpecDns : one call of resolveDomain of src/dnsResolver.js.            *)
(*   SpecQuick : one call of quickFilterIp of src/ipTester.js.             *)
(*   SpecStage : one batch stage: quickFilterIps, testIpsConcurrently or   *)
(*             getRegionsConcurrently, over probes that settle in any      *)
(*             order.                                                      *)
(*   SpecPing : one call of testIpAvailability of src/ipTester.js.         *)
(*   SpecBw  : one call of testIpBandwidth (bandwidthTester, found in      *)
(*             config/config.js from line 58 on).                          *)
(*   SpecAdv : the advanced stages of main, src/index.js:163-199.          *)
(*   SpecFn  : calculateScore, latencyFilterIps and the cache freshness    *)
(*             tests, each called on its own.                              *)
(*   SpecMain : main() of src/index.js from cleanOutputFiles to its        *)
(*             return, its callees taken by what they return.              *)
(*   SpecBatch : one call of batchBandwidthTest (bandwidthTester).         *)
(*   SpecFormat : one geolocation pass of main with its grouping and       *)
(*             formatting, src/index.js:123-161 and 201-238.               *)
(*                                                                         *)
(* Time is counted in whole hours; an ISO timestamp is the hour at which   *)
(* it was taken, so that the string order used by the eviction sort is     *)
(* the numeric order.  A legacy (timestamp-less) cache entry carries NoTs, *)
(* which sorts before every timestamp like the '' the code substitutes.    *)
(***************************************************************************)
EXTENDS Integers, Sequences, FiniteSets, TLC

VARIABLES
  pc,            \* position in start()/main()
  now,           \* wall clock, hours
  ticks,         \* number of clock advances so far
  disk,          \* data/Cache-nodejs.json: absent, corrupt, or a cache object
  regionCache,   \* the module-level cache, entries in property order
  queue,         \* getRegionsConcurrently: addresses not yet looked up
  filtered,      \* main: filteredIps
  lk,            \* getIpRegion: "none", "primary" or "secondary" in flight
  cur,           \* the current / last getIpRegion call
  loads,         \* calls of loadRegionCache
  saves,         \* calls of saveRegionCache
  cleanedAt,     \* hour at which cleanExpiredCache ran (-1: not yet)
  ttlClean,      \* ttlHours passed to cleanExpiredCache (0: not called)
  ttlLookup,     \* ttlHours passed to getIpRegion (0: not called)
  exitPath,      \* how main() ended
  dpc,           \* resolveDomain: position
  di,            \* resolveDomain: loop index i (1-based)
  inflight,      \* resolveDomain: resolve4 calls awaiting an answer
  allIps,        \* resolveDomain: the Set allIps, in insertion order
  successfulServers,
  failedServers,
  attempts,      \* resolve4 calls issued per authority
  returned,      \* every raw address any resolve4 call returned
  delays,        \* pacing delays taken
  qpc,           \* quickFilterIp: position
  qip,           \* quickFilterIp: the argument ip
  qports,        \* quickFilterIp: the argument testPorts
  qi,            \* quickFilterIp: index of the port being tried
  qmin,          \* quickFilterIp: minDelay
  qconn,         \* quickFilterIp: the connections attempted, in order
  qres,          \* quickFilterIp: the value returned
  skind,         \* which batch stage runs: "quick", "ping" or "geo"
  spc,           \* the stage function's position
  sips,          \* the stage's input addresses
  sbase,         \* loop index i: inputs dealt with before the current ones
  spend,         \* indices of the probes in flight
  sverdict,      \* what each settled probe gave
  sorder,        \* indices in the order their probes settled
  sout,          \* the sequence the stage builds and returns
  tpc,           \* testIpAvailability: position
  tip,           \* testIpAvailability: the argument ip
  tports,        \* testIpAvailability: the argument testPorts
  tcount,        \* testIpAvailability: the argument pingCount
  tattempt,      \* testIpAvailability: pingAttempt
  ti,            \* testIpAvailability: index of the port being tried
  tmin,          \* testIpAvailability: minDelay of the current attempt
  allDelays,     \* testIpAvailability: the array allDelays
  successCount,  \* testIpAvailability: the counter successCount
  thist,         \* every connection attempted: ping attempt and outcome
  tres,          \* testIpAvailability: the value returned
  bpc,           \* testIpBandwidth: position
  bip,           \* testIpBandwidth: the argument ip
  bcount,        \* testIpBandwidth: the argument testCount
  battempt,      \* testIpBandwidth: testAttempt
  burl,          \* testIpBandwidth: index of the url in testUrls
  bestSpeed,     \* testIpBandwidth: bestSpeed, in bits per second
  bestLatency,   \* testIpBandwidth: bestLatency, ms
  blat,          \* startDownload - startTime of the current download, ms
  dataDownloaded,\* bytes of the current download, in MiB
  belapsed,      \* seconds since startDownload
  bdownloads,    \* GET requests issued so far
  bgot,          \* whether any download delivered a byte
  bprobe,        \* what the fallback reachability probe returned
  bres,          \* testIpBandwidth: the value returned
  apc,           \* main, advanced mode: position
  afiltered,     \* main: filteredIps as the advanced stages receive it
  apct,          \* main: latencyFilterPercentage
  ai,            \* index of the address being probed
  quickFilterResults,
  latencyFilteredIps,
  tcpPingResults,
  bandwidthResults,  \* batchBandwidthTest: the array it returns
  availableIps,  \* main: availableIps after the sort of line 190
  fpc,           \* a library function called on its own: position
  fargs,         \* the arguments, arrays with their current content
  fgiven,        \* the arguments as they were when the call was made
  fret,          \* the value returned
  mpc,           \* main, whole pipeline: position
  files,         \* the output files present in the working directory
  undeleted,     \* cleanOutputFiles: the files whose removal failed
  domains,       \* main: the list loadDomainList returned
  mi,            \* main: index of the domain being resolved
  allIpsMain,    \* main: the array allIps
  uniqueIps,     \* main: uniqueIps
  filteredIps,   \* main: filteredIps
  probed,        \* every address handed to quickFilterIp by quickFilterIps
  stages,        \* the stages main has started
  mexit,         \* how main ended
  tscript,       \* the delays the probed host answers with; <<>>: any
  bmeasured,     \* testIpBandwidth: every speedMbps computed, bits per second
  kpc,           \* batchBandwidthTest: position
  kdata,         \* batchBandwidthTest: the argument ipData
  ki,            \* batchBandwidthTest: loop index i (1-based)
  kflight,       \* indices whose testIpBandwidthOnly call has not returned
  kreports,      \* what testIpBandwidthOnly returned, call by call
  kresults,      \* batchBandwidthTest: the array bandwidthResults
  gpc,           \* main, grouping and formatting of one pass: position
  gsource,       \* the pass's addresses, each with the latency measured for it
  regionResults, \* main: what getRegionsConcurrently returned
  regionGroups,  \* main: the groups, in the order their keys were created
  result         \* main: the formatted records

geoVars == <<pc, now, ticks, disk, regionCache, queue, filtered, lk, cur,
             loads, saves, cleanedAt, ttlClean, ttlLookup, exitPath>>
dnsVars == <<dpc, di, inflight, allIps, successfulServers, failedServers,
             attempts, returned, delays>>
quickVars == <<qpc, qip, qports, qi, qmin, qconn, qres>>
stageVars == <<skind, spc, sips, sbase, spend, sverdict, sorder, sout>>
pingVars == <<tpc, tip, tports, tcount, tattempt, ti, tmin, allDelays,
              successCount, thist, tres>>
bwVars == <<bpc, bip, bcount, battempt, burl, bestSpeed, bestLatency, blat,
            dataDownloaded, belapsed, bdownloads, bgot, bprobe, bres>>
advVars == <<apc, afiltered, apct, ai, quickFilterResults, latencyFilteredIps,
             tcpPingResults, bandwidthResults, availableIps>>
fnVars == <<fpc, fargs, fgiven, fret>>
mainVars == <<mpc, files, undeleted, domains, mi, allIpsMain, uniqueIps,
              filteredIps, probed, stages, mexit>>
netVars == <<tscript>>
measVars == <<bmeasured>>
batchVars == <<kpc, kdata, ki, kflight, kreports, kresults>>
formatVars == <<gpc, gsource, regionResults, regionGroups, result>>
probeVars == <<quickVars, stageVars, pingVars, bwVars, advVars, fnVars,
               mainVars, netVars, measVars, batchVars, formatVars>>
vars == <<geoVars, dnsVars, probeVars>>

\* what each specification leaves untouched
geoRest == <<dnsVars, probeVars>>
dnsRest == <<geoVars, probeVars>>
quickRest == <<geoVars, dnsVars, stageVars, pingVars, bwVars, advVars, fnVars,
               mainVars, netVars, measVars, batchVars, formatVars>>
stageRest == <<geoVars, dnsVars, quickVars, pingVars, bwVars, advVars, fnVars,
               mainVars, netVars, measVars, batchVars, formatVars>>
pingRest == <<geoVars, dnsVars, quickVars, stageVars, bwVars, advVars, fnVars,
              mainVars, netVars, measVars, batchVars, formatVars>>
bwRest == <<geoVars, dnsVars, quickVars, stageVars, pingVars, advVars, fnVars,
            mainVars, netVars, batchVars, formatVars>>
advRest == <<geoVars, dnsVars, quickVars, stageVars, pingVars, bwVars, fnVars,
             mainVars, netVars, measVars, batchVars, formatVars>>
fnRest == <<geoVars, dnsVars, quickVars, stageVars, pingVars, bwVars, advVars,
            mainVars, netVars, measVars, batchVars, formatVars>>
mainRest == <<geoVars, dnsVars, quickVars, stageVars, pingVars, bwVars,
              advVars, fnVars, netVars, measVars, batchVars, formatVars>>
batchRest == <<geoVars, dnsVars, quickVars, stageVars, pingVars, bwVars,
               advVars, fnVars, mainVars, netVars, measVars, formatVars>>
formatRest == <<geoVars, dnsVars, quickVars, stageVars, pingVars, bwVars,
                advVars, fnVars, mainVars, netVars, measVars, batchVars>>

\* quickFilterIp is not running
QuickIdle ==
  /\ qpc = "off"
  /\ qip = <<>>
  /\ qports = [isArray |-> FALSE, items |-> <<>>]
  /\ qi = 0
  /\ qmin = 0
  /\ qconn = <<>>
  /\ qres = [isGood |-> FALSE, delay |-> 0]

\* no batch stage is running
StageIdle ==
  /\ skind = "off"
  /\ spc = "off"
  /\ sips = <<>>
  /\ sbase = 0
  /\ spend = {}
  /\ sverdict = <<>>
  /\ sorder = <<>>
  /\ sout = <<>>

\* lines 111, 116 and 176: the unavailable result.  avgDelay and stability
\* are kept in hundredths, the precision of lines 165 and 170.
Unavailable ==
  [isAvailable |-> FALSE, minDelay |-> 0, avgDelay |-> 0, stability |-> 0]

\* testIpAvailability is not running
PingIdle ==
  /\ tpc = "off"
  /\ tip = <<>>
  /\ tports = [isArray |-> FALSE, items |-> <<>>]
  /\ tcount = 0
  /\ tattempt = 0
  /\ ti = 0
  /\ tmin = 0
  /\ allDelays = <<>>
  /\ successCount = 0
  /\ thist = <<>>
  /\ tres = Unavailable

\* the result of lines 77, 179 and 185 of config.js (bandwidthTester)
NotFast == [isFast |-> FALSE, bandwidth |-> 0, latency |-> 0]

\* the fallback reachability probe has not been made
NoProbe == [calls |-> 0, isAvailable |-> FALSE, minDelay |-> 0]

\* testIpBandwidth is not running
BwIdle ==
  /\ bpc = "off"
  /\ bip = <<>>
  /\ bcount = 0
  /\ battempt = 0
  /\ burl = 0
  /\ bestSpeed = 0
  /\ bestLatency = 0
  /\ blat = 0
  /\ dataDownloaded = 0
  /\ belapsed = 0
  /\ bdownloads = 0
  /\ bgot = FALSE
  /\ bprobe = NoProbe
  /\ bres = NotFast

\* the advanced stages of main are not running
AdvIdle ==
  /\ apc = "off"
  /\ afiltered = <<>>
  /\ apct = 0
  /\ ai = 0
  /\ quickFilterResults = <<>>
  /\ latencyFilteredIps = <<>>
  /\ tcpPingResults = <<>>
  /\ bandwidthResults = <<>>
  /\ availableIps = <<>>

\* no library function is being called on its own
FnIdle ==
  /\ fpc = "off"
  /\ fargs = [name |-> "none"]
  /\ fgiven = [name |-> "none"]
  /\ fret = [done |-> FALSE]

\* the pipeline of main is not running
MainIdle ==
  /\ mpc = "off"
  /\ files = {}
  /\ undeleted = {}
  /\ domains = <<>>
  /\ mi = 0
  /\ allIpsMain = <<>>
  /\ uniqueIps = <<>>
  /\ filteredIps = <<>>
  /\ probed = <<>>
  /\ stages = {}
  /\ mexit = "none"

\* no host behaviour is prescribed
NetIdle ==
  /\ tscript = <<>>

\* testIpBandwidth has measured nothing
MeasIdle ==
  /\ bmeasured = {}

\* batchBandwidthTest is not being called on its own
BatchIdle ==
  /\ kpc = "off"
  /\ kdata = <<>>
  /\ ki = 0
  /\ kflight = {}
  /\ kreports = <<>>
  /\ kresults = <<>>

\* no geolocation pass of main is being formatted on its own
FormatIdle ==
  /\ gpc = "off"
  /\ gsource = <<>>
  /\ regionResults = <<>>
  /\ regionGroups = <<>>
  /\ result = <<>>

\* the probes of ipTester.js and bandwidthTester are idle
ProbesIdle ==
  /\ QuickIdle
  /\ StageIdle
  /\ PingIdle
  /\ BwIdle
  /\ AdvIdle
  /\ FnIdle
  /\ MainIdle
  /\ NetIdle
  /\ MeasIdle
  /\ BatchIdle
  /\ FormatIdle

----------------------------------------------------------------------------
(* Bounds of the model *)

\* Hour at which the run starts.
StartHour == 200
\* Number of clock advances explored in one run.
MaxTicks == 1
\* geoResolver.js:87 keeps at most 1000 entries; the model keeps the
\* comparison and the arithmetic and scales the limit to the address pool.
MaxCacheEntries == 2

(* Program constants *)

\* a retention window of two weeks
cacheTtlHoursDouble == 168 * 2

\* config.js:28, passed to cleanExpiredCache at index.js:268
cacheTtlHours == 168
\* the literal passed to getIpRegion at geoResolver.js:223
lookupTtlHours == 168

NoTs == -1

\* The addresses of a run, in the numeric order of index.js:86-96.
GeoIps == <<"1.0.0.1", "1.1.1.1", "8.8.8.8">>

----------------------------------------------------------------------------
(* Sequences *)

Range(s) == {s[k] : k \in 1..Len(s)}

IsInjective(s) == \A a, b \in 1..Len(s) : s[a] = s[b] => a = b

\* The subsequences of s (order kept).
RECURSIVE SubSeqs(_)
SubSeqs(s) ==
  IF s = <<>> THEN {<<>>}
  ELSE LET rest == SubSeqs(Tail(s))
       IN  rest \cup {<<Head(s)>> \o t : t \in rest}

----------------------------------------------------------------------------
(* The cache object: a sequence of [ip, region, ts] in property order *)

Keys(c) == {c[k].ip : k \in 1..Len(c)}

Entry(c, ip) == c[CHOOSE k \in 1..Len(c) : c[k].ip = ip]

\* regionCache[ip] = {region, timestamp}: an existing key keeps its place
Put(c, ip, region, ts) ==
  IF ip \in Keys(c)
  THEN [k \in 1..Len(c) |->
          IF c[k].ip = ip THEN [ip |-> ip, region |-> region, ts |-> ts]
          ELSE c[k]]
  ELSE Append(c, [ip |-> ip, region |-> region, ts |-> ts])

\* delete regionCache[key] for every key of K
DeleteKeys(c, K) ==
  LET Keep(e) == e.ip \notin K IN SelectSeq(c, Keep)

\* a load that leaves an entry behind when the file cannot be read
LoadedCacheLeftover(d) ==
  IF d.state = "ok" THEN d.data
  ELSE <<[ip |-> "1.0.0.1", region |-> "CN", ts |-> NoTs]>>

\* what fs.readJson gives loadRegionCache: the file's object, or nothing
LoadedCache(d) == IF d.state = "ok" THEN d.data ELSE <<>>

----------------------------------------------------------------------------
(* geoResolver.js *)

\* the test with the default ttlHours = 24 of line 51 in place of the argument
isCacheValidDay(timestamp, ttlHours, t) ==
  IF timestamp = NoTs THEN FALSE ELSE (t - timestamp) < 24

\* the test with an age of exactly ttlHours still counted as valid
isCacheValidInclusive(timestamp, ttlHours, t) ==
  IF timestamp = NoTs THEN FALSE ELSE (t - timestamp) <= ttlHours

isCacheValid(timestamp, ttlHours, t) ==
  IF timestamp = NoTs THEN FALSE ELSE (t - timestamp) < ttlHours

\* Array.prototype.sort with the comparator of lines 89-93: stable, ascending
RECURSIVE InsertByTs(_, _)
InsertByTs(s, e) ==
  IF s = <<>> THEN <<e>>
  ELSE IF e.ts < Head(s).ts THEN <<e>> \o s
  ELSE <<Head(s)>> \o InsertByTs(Tail(s), e)

RECURSIVE SortByTs(_)
SortByTs(s) ==
  IF s = <<>> THEN <<>>
  ELSE InsertByTs(SortByTs(SubSeq(s, 1, Len(s) - 1)), s[Len(s)])

\* an expiry pass that takes an entry without a timestamp for expired
ExpiredKeysWithLegacy(c, ttlHours, t) ==
  {c[k].ip : k \in {j \in 1..Len(c) :
                      c[j].ts = NoTs \/ (t - c[j].ts) >= ttlHours}}

ExpiredKeys(c, ttlHours, t) ==
  {c[k].ip : k \in {j \in 1..Len(c) :
                      c[j].ts # NoTs /\ (t - c[j].ts) >= ttlHours}}

\* the eviction with the sort order reversed: the newest entries go
EvictNewest(c) ==
  LET cacheSize == Len(c) IN
  IF cacheSize > MaxCacheEntries
  THEN LET sortedEntries == SortByTs(c)
           itemsToRemove == cacheSize - MaxCacheEntries
       IN  DeleteKeys(c, {sortedEntries[cacheSize + 1 - k].ip :
                            k \in 1..itemsToRemove})
  ELSE c

EvictOldest(c) ==
  LET cacheSize == Len(c) IN
  IF cacheSize > MaxCacheEntries
  THEN LET sortedEntries == SortByTs(c)
           itemsToRemove == cacheSize - MaxCacheEntries
       IN  DeleteKeys(c, {sortedEntries[k].ip : k \in 1..itemsToRemove})
  ELSE c

cleanExpiredCache(c, ttlHours, t) ==
  EvictOldest(DeleteKeys(c, ExpiredKeys(c, ttlHours, t)))

\* the cache test at the head of getIpRegion: "hit", "legacy" or "miss"
CacheProbe(c, ip, ttlHours, t) ==
  IF ip \notin Keys(c) THEN "miss"
  ELSE IF Entry(c, ip).ts = NoTs THEN "legacy"
  ELSE IF isCacheValid(Entry(c, ip).ts, ttlHours, t) THEN "hit"
  ELSE "miss"

toUpperCase(code) ==
  CASE code = "us" -> "US"
    [] code = "de" -> "DE"
    [] OTHER -> code

\* what a geolocation service can answer: a country code, or a failure
PrimaryAnswers == {"us", "error", "status", "nocode"}
SecondaryAnswers == {"de", "error", "status", "nocode"}
Failures == {"error", "status", "nocode"}

\* regionCache[ip] = {region, timestamp: new Date().toISOString()}
\* (lines 148-151, 171-174, 189-192)
StoreResultSkipUnknown(c, ip, region, t) ==
  IF region = "Unknown" THEN c ELSE Put(c, ip, region, t)

StoreResult(c, ip, region, t) == Put(c, ip, region, t)

\* a getIpRegion call: which services it queried, which failed, what it
\* returned and when
NoCall == [ip |-> "none", primary |-> FALSE, secondary |-> FALSE,
           pfail |-> FALSE, sfail |-> FALSE, code |-> "none", at |-> -1,
           done |-> FALSE]

----------------------------------------------------------------------------
(* The persisted cache file at the start of a run *)

\* Timestamps found on disk: none (legacy), exactly cacheTtlHours old,
\* one hour younger than that, and one hour old.
DiskStamps == {NoTs, StartHour - cacheTtlHours,
               StartHour - cacheTtlHours + 1, StartHour - 1}

\* the cache objects a file can hold: some of the addresses, in address
\* order, each entry written by an earlier run
DiskCaches ==
  UNION {{[k \in 1..Len(a) |-> [ip |-> a[k], region |-> "CN", ts |-> f[k]]] :
            f \in [1..Len(a) -> DiskStamps]} :
         a \in SubSeqs(GeoIps)}

DiskStates ==
  {[state |-> "absent", data |-> <<>>], [state |-> "corrupt", data |-> <<>>]}
    \cup {[state |-> "ok", data |-> c] : c \in DiskCaches}

\* clock advances considered between two steps of a run
TickSteps == {1, lookupTtlHours}

----------------------------------------------------------------------------
(* resolveDomain is idle under SpecGeo *)

DnsIdle ==
  /\ dpc = "off"
  /\ di = 0
  /\ inflight = 0
  /\ allIps = <<>>
  /\ successfulServers = <<>>
  /\ failedServers = <<>>
  /\ attempts = <<>>
  /\ returned = {}
  /\ delays = 0

InitGeo ==
  /\ pc = "start"
  /\ now = StartHour
  /\ ticks = 0
  /\ disk \in DiskStates
  /\ regionCache = <<>>
  /\ queue = <<>>
  /\ filtered = <<>>
  /\ lk = "none"
  /\ cur = NoCall
  /\ loads = 0
  /\ saves = 0
  /\ cleanedAt = -1
  /\ ttlClean = 0
  /\ ttlLookup = 0
  /\ exitPath = "none"
  /\ DnsIdle
  /\ ProbesIdle

----------------------------------------------------------------------------
(* start(), index.js:260-275 *)

\* loadRegionCache: an absent or unreadable file gives the empty cache
LoadRegionCache ==
  /\ pc = "start"
  /\ regionCache' = LoadedCache(disk)
  /\ loads' = loads + 1
  /\ pc' = "loaded"
  /\ UNCHANGED <<now, ticks, disk, queue, filtered, lk, cur, saves, cleanedAt,
                 ttlClean, ttlLookup, exitPath>>
  /\ UNCHANGED geoRest

\* a cleanup that is not tied to start(): it also runs during the first
\* lookup pass, whatever getIpRegion is waiting for
CleanExpiredCacheAnytime ==
  /\ pc \in {"loaded", "geo1"}
  /\ regionCache' = cleanExpiredCache(regionCache, cacheTtlHours, now)
  /\ cleanedAt' = now
  /\ ttlClean' = cacheTtlHours
  /\ pc' = IF pc = "loaded" THEN "main" ELSE pc
  /\ UNCHANGED <<now, ticks, disk, queue, filtered, lk, cur, loads, saves,
                 ttlLookup, exitPath>>
  /\ UNCHANGED geoRest

\* cleanExpiredCache(cacheTtlHours), then main() is entered
CleanExpiredCache ==
  /\ pc = "loaded"
  /\ regionCache' = cleanExpiredCache(regionCache, cacheTtlHours, now)
  /\ cleanedAt' = now
  /\ ttlClean' = cacheTtlHours
  /\ pc' = "main"
  /\ UNCHANGED <<now, ticks, disk, queue, filtered, lk, cur, loads, saves,
                 ttlLookup, exitPath>>
  /\ UNCHANGED geoRest

----------------------------------------------------------------------------
(* main(), index.js:33-255.  Resolution and the quick filter are taken    *)
(* by their outcome here: the list filteredIps, or one of the three early *)
(* returns.  No callee of main rejects (each catches its own errors), so  *)
(* the catch of lines 251-254 has no modelled input that reaches it.      *)

MainReturn(path) ==
  /\ pc = "main"
  /\ pc' = "returned"
  /\ exitPath' = path
  /\ UNCHANGED <<now, ticks, disk, regionCache, queue, filtered, lk, cur,
                 loads, saves, cleanedAt, ttlClean, ttlLookup>>
  /\ UNCHANGED geoRest

\* domains.length === 0
MainNoDomains == MainReturn("noDomains")

\* uniqueIps.length === 0
MainNoIps == MainReturn("noIps")

\* filteredIps.length === 0
MainNoneFiltered == MainReturn("noneFiltered")

\* filteredIps is a non-empty part of the sorted unique addresses; the
\* first getRegionsConcurrently pass is started on it
MainFiltered ==
  /\ pc = "main"
  /\ \E f \in SubSeqs(GeoIps) \ {<<>>} :
       /\ filtered' = f
       /\ queue' = f
  /\ pc' = "geo1"
  /\ UNCHANGED <<now, ticks, disk, regionCache, lk, cur, loads, saves,
                 cleanedAt, ttlClean, ttlLookup, exitPath>>
  /\ UNCHANGED geoRest

----------------------------------------------------------------------------
(* getRegionsConcurrently / getIpRegion, geoResolver.js:114-257 *)

\* getIpRegion(ip, 5000, 168) up to its first await: the cache test
GeoLookup ==
  /\ pc \in {"geo1", "geo2"}
  /\ lk = "none"
  /\ queue # <<>>
  /\ ttlLookup' = lookupTtlHours
  /\ LET ip == Head(queue)
         probe == CacheProbe(regionCache, ip, lookupTtlHours, now)
     IN  IF probe \in {"hit", "legacy"}
         THEN /\ cur' = [ip |-> ip, primary |-> FALSE, secondary |-> FALSE,
                         pfail |-> FALSE, sfail |-> FALSE,
                         code |-> Entry(regionCache, ip).region, at |-> now,
                         done |-> TRUE]
              /\ queue' = Tail(queue)
              /\ lk' = "none"
         ELSE /\ cur' = [ip |-> ip, primary |-> TRUE, secondary |-> FALSE,
                         pfail |-> FALSE, sfail |-> FALSE, code |-> "none",
                         at |-> -1, done |-> FALSE]
              /\ queue' = queue
              /\ lk' = "primary"
  /\ UNCHANGED <<pc, now, ticks, disk, regionCache, filtered, loads, saves,
                 cleanedAt, ttlClean, exitPath>>
  /\ UNCHANGED geoRest

\* the primary service answers (lines 142-162)
PrimaryResponds ==
  /\ lk = "primary"
  /\ \E ans \in PrimaryAnswers :
       IF ans \notin Failures
       THEN /\ regionCache' = StoreResult(regionCache, cur.ip, toUpperCase(ans), now)
            /\ cur' = [cur EXCEPT !.code = toUpperCase(ans), !.at = now,
                                  !.done = TRUE]
            /\ queue' = Tail(queue)
            /\ lk' = "none"
       ELSE /\ cur' = [cur EXCEPT !.pfail = TRUE, !.secondary = TRUE]
            /\ lk' = "secondary"
            /\ UNCHANGED <<regionCache, queue>>
  /\ UNCHANGED <<pc, now, ticks, disk, filtered, loads, saves, cleanedAt,
                 ttlClean, ttlLookup, exitPath>>
  /\ UNCHANGED geoRest

\* the secondary service answers (lines 166-194)
SecondaryResponds ==
  /\ lk = "secondary"
  /\ \E ans \in SecondaryAnswers :
       LET code == IF ans \notin Failures THEN toUpperCase(ans) ELSE "Unknown"
       IN  /\ regionCache' = StoreResult(regionCache, cur.ip, code, now)
           /\ cur' = [cur EXCEPT !.code = code, !.at = now, !.done = TRUE,
                                 !.sfail = (ans \in Failures)]
  /\ queue' = Tail(queue)
  /\ lk' = "none"
  /\ UNCHANGED <<pc, now, ticks, disk, filtered, loads, saves, cleanedAt,
                 ttlClean, ttlLookup, exitPath>>
  /\ UNCHANGED geoRest

\* the first pass returns; index.js:130-161 formats and saves the basic file
GeoPassDone ==
  /\ pc = "geo1"
  /\ queue = <<>>
  /\ lk = "none"
  /\ pc' = "advanced"
  /\ UNCHANGED <<now, ticks, disk, regionCache, queue, filtered, lk, cur,
                 loads, saves, cleanedAt, ttlClean, ttlLookup, exitPath>>
  /\ UNCHANGED geoRest

\* index.js:164-206: the advanced stages leave availableIps, some of the
\* filtered addresses in score order; the second pass runs if it is non-empty
MainAdvanced ==
  /\ pc = "advanced"
  /\ \E avail \in SubSeqs(filtered) :
       /\ queue' = avail
       /\ pc' = IF avail = <<>> THEN "save" ELSE "geo2"
  /\ UNCHANGED <<now, ticks, disk, regionCache, filtered, lk, cur, loads,
                 saves, cleanedAt, ttlClean, ttlLookup, exitPath>>
  /\ UNCHANGED geoRest

GeoPass2Done ==
  /\ pc = "geo2"
  /\ queue = <<>>
  /\ lk = "none"
  /\ pc' = "save"
  /\ UNCHANGED <<now, ticks, disk, regionCache, queue, filtered, lk, cur,
                 loads, saves, cleanedAt, ttlClean, ttlLookup, exitPath>>
  /\ UNCHANGED geoRest

\* saveRegionCache (geoResolver.js:34-43): the write succeeds, or its error
\* is caught and the file stays as it was
SaveRegionCache ==
  /\ pc = "save"
  /\ \E written \in BOOLEAN :
       /\ disk' = IF written THEN [state |-> "ok", data |-> regionCache] ELSE disk
       /\ exitPath' = IF written THEN "completed" ELSE "writeFailed"
  /\ saves' = saves + 1
  /\ pc' = "done"
  /\ UNCHANGED <<now, ticks, regionCache, queue, filtered, lk, cur, loads,
                 cleanedAt, ttlClean, ttlLookup>>
  /\ UNCHANGED geoRest

\* time passes while main() awaits the network
Tick ==
  /\ pc \in {"geo1", "advanced", "geo2"}
  /\ ticks < MaxTicks
  /\ \E d \in TickSteps : now' = now + d
  /\ ticks' = ticks + 1
  /\ UNCHANGED <<pc, disk, regionCache, queue, filtered, lk, cur, loads,
                 saves, cleanedAt, ttlClean, ttlLookup, exitPath>>
  /\ UNCHANGED geoRest

NextGeo ==
  \/ LoadRegionCache
  \/ CleanExpiredCache
  \/ MainNoDomains
  \/ MainNoIps
  \/ MainNoneFiltered
  \/ MainFiltered
  \/ GeoLookup
  \/ PrimaryResponds
  \/ SecondaryResponds
  \/ GeoPassDone
  \/ MainAdvanced
  \/ GeoPass2Done
  \/ SaveRegionCache
  \/ Tick

SpecGeo == InitGeo /\ [][NextGeo]_vars

----------------------------------------------------------------------------
(* dnsResolver.js: resolveDomain(domain, dnsServers) *)

\* Number of authorities passed to resolveDomain.
NumServers == 3
\* Longest answer of one resolve4 call.
MaxAnswerLen == 2

\* config.js:4-17, in property order
dnsServers ==
  <<"223.5.5.5", "223.6.6.6", "180.76.76.76", "119.29.29.29",
    "182.254.116.116", "114.114.114.114", "114.114.115.115",
    "123.123.123.123", "123.123.123.124">>

\* Object.entries(dnsServers) of the call
serverEntries == SubSeq(dnsServers, 1, NumServers)

\* the allow-list of line 55
IsCritical(dnsServer) ==
  dnsServer \in {"223.5.5.5", "223.6.6.6", "119.29.29.29"}

\* An address is the sequence of its ip.split('.') parts.  parseInt(part, 10)
\* reads a leading integer, and gives NaN when there is none.
ParseTable ==
  [part \in {"0", "1", "255", "256", "-1", "1x"} |->
     CASE part = "0" -> 0
       [] part = "1" -> 1
       [] part = "255" -> 255
       [] part = "256" -> 256
       [] part = "-1" -> -1
       [] part = "1x" -> 1]

isNaN(part) == part \notin DOMAIN ParseTable

parseInt(part) == ParseTable[part]

\* the filter without the range test
AnyFourParts(ip) == Len(ip) = 4

\* the filter of lines 30-37 and 62-68
IsValidIp(ip) ==
  /\ Len(ip) = 4
  /\ \A k \in 1..Len(ip) :
       /\ ~isNaN(ip[k])
       /\ parseInt(ip[k]) >= 0
       /\ parseInt(ip[k]) <= 255

\* what a resolve4 call can hand back
RawPool ==
  {<<"1", "1", "1", "1">>, <<"1", "0", "0", "255">>, <<"1x", "0", "0", "1">>,
   <<"1", "1", "1", "256">>, <<"1", "1", "1">>, <<"1", "x", "1", "1">>,
   <<"-1", "1", "1", "1">>}

RECURSIVE SeqsUpTo(_, _)
SeqsUpTo(S, n) ==
  IF n = 0 THEN {<<>>}
  ELSE LET shorter == SeqsUpTo(S, n - 1)
       IN  shorter \cup {Append(t, x) : t \in shorter, x \in S}

Answers == SeqsUpTo(RawPool, MaxAnswerLen)

validIps(ips) == SelectSeq(ips, IsValidIp)

\* validIps.forEach(ip => allIps.add(ip)): a Set keeps insertion order
RECURSIVE AddAll(_, _)
AddAll(set, ips) ==
  IF ips = <<>> THEN set
  ELSE AddAll(IF Head(ips) \in Range(set) THEN set ELSE Append(set, Head(ips)),
              Tail(ips))

\* a pacing delay after every authority, the last included
PaceAlways(i, n) == TRUE

\* line 87, with i counted from 1
PaceNeeded(i, n) == i < n

\* the geolocation side is idle under SpecDns
GeoIdle ==
  /\ pc = "off"
  /\ now = 0
  /\ ticks = 0
  /\ disk = [state |-> "absent", data |-> <<>>]
  /\ regionCache = <<>>
  /\ queue = <<>>
  /\ filtered = <<>>
  /\ lk = "none"
  /\ cur = NoCall
  /\ loads = 0
  /\ saves = 0
  /\ cleanedAt = -1
  /\ ttlClean = 0
  /\ ttlLookup = 0
  /\ exitPath = "none"

InitDns ==
  /\ dpc = "call"
  /\ di = 1
  /\ inflight = 0
  /\ allIps = <<>>
  /\ successfulServers = <<>>
  /\ failedServers = <<>>
  /\ attempts = [k \in 1..Len(serverEntries) |-> 0]
  /\ returned = {}
  /\ delays = 0
  /\ GeoIdle
  /\ ProbesIdle

\* the loop of line 20 goes on: the next authority is queried at once, or
\* the loop ends and resolveDomain returns (lines 92-112)
LoopNext(att, inf) ==
  IF di < Len(serverEntries)
  THEN /\ di' = di + 1
       /\ attempts' = [att EXCEPT ![di + 1] = @ + 1]
       /\ inflight' = inf + 1
       /\ dpc' = "wait"
  ELSE /\ dpc' = "done"
       /\ di' = di
       /\ attempts' = att
       /\ inflight' = inf

\* the end of one loop iteration (lines 86-90): the pacing timer is
\* started, or the loop goes on without it
AfterServer(att, inf) ==
  /\ IF PaceNeeded(di, Len(serverEntries))
     THEN /\ dpc' = "pace"
          /\ di' = di
          /\ attempts' = att
          /\ inflight' = inf
     ELSE LoopNext(att, inf)
  /\ delays' = delays

\* resolveDomain is called: the first authority is queried (lines 11-29)
DnsCall ==
  /\ dpc = "call"
  /\ inflight' = inflight + 1
  /\ attempts' = [attempts EXCEPT ![di] = @ + 1]
  /\ dpc' = "wait"
  /\ UNCHANGED <<di, allIps, successfulServers, failedServers, returned, delays>>
  /\ UNCHANGED dnsRest

\* resolve4 answers (lines 29-48)
DnsAnswer ==
  /\ dpc = "wait"
  /\ \E ips \in Answers :
       /\ returned' = returned \cup Range(ips)
       /\ IF Len(validIps(ips)) > 0
          THEN /\ successfulServers' = Append(successfulServers, serverEntries[di])
               /\ allIps' = AddAll(allIps, validIps(ips))
               /\ UNCHANGED failedServers
          ELSE /\ failedServers' = Append(failedServers, serverEntries[di])
               /\ UNCHANGED <<allIps, successfulServers>>
  /\ AfterServer(attempts, inflight - 1)
  /\ UNCHANGED dnsRest

\* resolve4 rejects (timeout, SERVFAIL, ...): lines 50-61
DnsError ==
  /\ dpc = "wait"
  /\ failedServers' = Append(failedServers, serverEntries[di])
  /\ IF IsCritical(serverEntries[di])
     THEN /\ attempts' = [attempts EXCEPT ![di] = @ + 1]
          /\ inflight' = inflight
          /\ dpc' = "retry"
          /\ UNCHANGED <<di, delays>>
     ELSE AfterServer(attempts, inflight - 1)
  /\ UNCHANGED <<allIps, successfulServers, returned>>
  /\ UNCHANGED dnsRest

\* the retry answers (lines 61-78)
DnsRetryAnswer ==
  /\ dpc = "retry"
  /\ \E ips \in Answers :
       /\ returned' = returned \cup Range(ips)
       /\ IF Len(validIps(ips)) > 0
          THEN /\ successfulServers' = Append(successfulServers, serverEntries[di])
               /\ allIps' = AddAll(allIps, validIps(ips))
          ELSE UNCHANGED <<allIps, successfulServers>>
  /\ AfterServer(attempts, inflight - 1)
  /\ UNCHANGED failedServers
  /\ UNCHANGED dnsRest

\* the retry rejects (lines 80-82)
DnsRetryError ==
  /\ dpc = "retry"
  /\ AfterServer(attempts, inflight - 1)
  /\ UNCHANGED <<allIps, successfulServers, failedServers, returned>>
  /\ UNCHANGED dnsRest

\* the 100 ms timer of line 88 fires and the loop queries the next authority
DnsPaceDone ==
  /\ dpc = "pace"
  /\ delays' = delays + 1
  /\ LoopNext(attempts, inflight)
  /\ UNCHANGED <<allIps, successfulServers, failedServers, returned>>
  /\ UNCHANGED dnsRest

NextDns ==
  \/ DnsCall
  \/ DnsAnswer
  \/ DnsError
  \/ DnsRetryAnswer
  \/ DnsRetryError
  \/ DnsPaceDone

SpecDns == InitDns /\ [][NextDns]_vars

----------------------------------------------------------------------------
(* ipTester.js: quickFilterIp(ip, testPorts) *)

\* Longest testPorts list passed to a probe.
MaxPorts == 2

\* let minDelay = Infinity (line 34): larger than every measured delay
Infinity == 1000000

\* a connection attempt that timed out or failed (testTcpConnection rejects)
Refused == -1

\* ipTester.js:9-17
isValidIp(ip) ==
  /\ Len(ip) = 4
  /\ \A k \in 1..Len(ip) :
       /\ ~isNaN(ip[k])
       /\ parseInt(ip[k]) >= 0
       /\ parseInt(ip[k]) <= 255

\* the port test of lines 38 and 128, on numeric ports
PortInRange(port) == port >= 1 /\ port <= 65535

\* index of the first port at or after position from that passes the port
\* test; Len + 1 when the for-of loop runs out
RECURSIVE NextPort(_, _)
NextPort(ports, from) ==
  IF from > Len(ports) THEN Len(ports) + 1
  ELSE IF PortInRange(ports[from]) THEN from
  ELSE NextPort(ports, from + 1)

Min(a, b) == IF a <= b THEN a ELSE b

\* a threshold that also takes 200 ms as good
IsGoodDelayInclusive(delay) == delay <= 200

\* lines 47 and 137
IsGoodDelay(delay) == delay < 200

\* lines 55-65, after the port loop
QuickVerdict(minDelay) ==
  IF minDelay > 500 THEN [isGood |-> FALSE, delay |-> 0]
  ELSE IF minDelay = Infinity THEN [isGood |-> FALSE, delay |-> 0]
  ELSE [isGood |-> TRUE, delay |-> minDelay]

\* inputs of one call
QuickIps == {<<"1", "1", "1", "1">>, <<"1", "1", "1", "256">>}
PortPool == {0, 443, 8443, 65536}
TestPortsInputs ==
  {[isArray |-> TRUE, items |-> ps] : ps \in SeqsUpTo(PortPool, MaxPorts)}
    \cup {[isArray |-> FALSE, items |-> <<>>]}
\* delays a connect can report, on both sides of 200 ms and 500 ms
DelayPool == {199, 200, 500, 501}

\* everything but quickFilterIp is idle under SpecQuick
QuickOthersIdle ==
  /\ GeoIdle
  /\ DnsIdle
  /\ StageIdle
  /\ PingIdle
  /\ BwIdle
  /\ AdvIdle
  /\ FnIdle
  /\ MainIdle
  /\ NetIdle
  /\ MeasIdle
  /\ BatchIdle
  /\ FormatIdle

InitQuick ==
  /\ qpc = "call"
  /\ qip \in QuickIps
  /\ qports \in TestPortsInputs
  /\ qi = 0
  /\ qmin = Infinity
  /\ qconn = <<>>
  /\ qres = [isGood |-> FALSE, delay |-> 0]
  /\ QuickOthersIdle

\* the for-of loop moves to the port at or after position from: it connects
\* to it, or the loop is over and lines 55-65 decide
QuickLoop(from, minDelay) ==
  LET k == NextPort(qports.items, from)
  IN  /\ qi' = k
      /\ qmin' = minDelay
      /\ IF k <= Len(qports.items)
         THEN /\ qpc' = "connect"
              /\ qres' = qres
         ELSE /\ qpc' = "done"
              /\ qres' = QuickVerdict(minDelay)

\* lines 26-43: the two argument checks, then the loop up to the first await
QuickCall ==
  /\ qpc = "call"
  /\ IF ~isValidIp(qip) \/ ~qports.isArray
     THEN /\ qpc' = "done"
          /\ qres' = [isGood |-> FALSE, delay |-> 0]
          /\ UNCHANGED <<qi, qmin>>
     ELSE QuickLoop(1, qmin)
  /\ UNCHANGED <<qip, qports, qconn>>
  /\ UNCHANGED quickRest

\* lines 43-49: testTcpConnection resolved with a delay
QuickConnected ==
  /\ qpc = "connect"
  /\ \E delay \in DelayPool :
       /\ qconn' = Append(qconn, [port |-> qports.items[qi], delay |-> delay])
       /\ IF IsGoodDelay(delay)
          THEN /\ qpc' = "done"
               /\ qres' = [isGood |-> TRUE, delay |-> delay]
               /\ qmin' = Min(qmin, delay)
               /\ qi' = qi
          ELSE QuickLoop(qi + 1, Min(qmin, delay))
  /\ UNCHANGED <<qip, qports>>
  /\ UNCHANGED quickRest

\* lines 50-52: testTcpConnection rejected
QuickRefused ==
  /\ qpc = "connect"
  /\ qconn' = Append(qconn, [port |-> qports.items[qi], delay |-> Refused])
  /\ QuickLoop(qi + 1, qmin)
  /\ UNCHANGED <<qip, qports>>
  /\ UNCHANGED quickRest

NextQuick ==
  \/ QuickCall
  \/ QuickConnected
  \/ QuickRefused

SpecQuick == InitQuick /\ [][NextQuick]_vars

----------------------------------------------------------------------------
(* The batch stages: quickFilterIps and testIpsConcurrently of ipTester.js,  *)
(* getRegionsConcurrently of geoResolver.js.  A probe is one call of         *)
(* quickFilterIp, testIpAvailability or getIpRegion; here it is a promise    *)
(* that settles with a verdict.                                              *)

\* Longest address list handed to a stage.
MaxIps == 4
\* config.js:26 sets maxWorkers to 15; the model keeps the comparison and
\* scales the value to the address lists it explores.
maxWorkers == 2
\* config.js:27 sets batchSize to 10, scaled likewise.
batchSize == 2
\* geoResolver.js:227 waits after every 10th lookup, scaled likewise.
RegionPauseEvery == 2

StageAddrs == <<"1.0.0.1", "1.1.1.1", "8.8.8.8", "9.9.9.9", "4.4.4.4">>

Reverse(s) == [k \in 1..Len(s) |-> s[Len(s) + 1 - k]]

\* address lists without repetition, as resolveDomain's Set produces them:
\* the first n addresses, in either direction
StageInputs ==
  LET prefixes == {SubSeq(StageAddrs, 1, n) :
                     n \in 0..Min(MaxIps, Len(StageAddrs))}
  IN  prefixes \cup {Reverse(ips) : ips \in prefixes}

\* how a probe settles: quickFilterIp / testIpAvailability fulfil with
\* isGood / isAvailable true or false, or reject; getIpRegion fulfils with a
\* country code or 'Unknown'
Verdicts(kind) ==
  IF kind = "geo" THEN {"US", "Unknown"} ELSE {"accept", "reject", "throw"}

\* the set S of indices as an ascending sequence
RECURSIVE Ascending(_)
Ascending(S) ==
  IF S = {} THEN <<>>
  ELSE LET m == CHOOSE x \in S : \A y \in S : x <= y
       IN  <<m>> \o Ascending(S \ {m})

\* the indices of S in the order their probes settled
CompletionOrder(S) == SelectSeq(sorder, LAMBDA k : k \in S)

\* the result loops of ipTester.js:197 and 248 walk the results by index
ResultOrder(S) == Ascending(S)

\* every remaining address in one batch
BatchAll(i, n) == (i + 1)..n

\* ips.slice(i, i + batchSize), as 1-based indices
BatchOf(i, n) == (i + 1)..Min(i + batchSize, n)

\* the records pushed for the indices idx, given the verdicts v
RECURSIVE Pushed(_, _)
Pushed(idx, v) ==
  IF idx = <<>> THEN <<>>
  ELSE (IF v[Head(idx)] = "accept"
        THEN <<[ip |-> sips[Head(idx)], val |-> v[Head(idx)]]>>
        ELSE <<>>) \o Pushed(Tail(idx), v)

StageOthersIdle ==
  /\ GeoIdle
  /\ DnsIdle
  /\ QuickIdle
  /\ PingIdle
  /\ BwIdle
  /\ AdvIdle
  /\ FnIdle
  /\ MainIdle
  /\ NetIdle
  /\ MeasIdle
  /\ BatchIdle
  /\ FormatIdle

InitStage ==
  /\ skind \in {"quick", "ping", "geo"}
  /\ spc = "call"
  /\ sips \in StageInputs
  /\ sbase = 0
  /\ spend = {}
  /\ sverdict = [k \in 1..Len(sips) |-> "none"]
  /\ sorder = <<>>
  /\ sout = <<>>
  /\ StageOthersIdle

\* quickFilterIps, lines 186-195: ips.map starts every probe, then the
\* function awaits Promise.allSettled
QuickFilterIpsCall ==
  /\ skind = "quick"
  /\ spc = "call"
  /\ spend' = 1..Len(sips)
  /\ spc' = "await"
  /\ UNCHANGED <<skind, sips, sbase, sverdict, sorder, sout>>
  /\ UNCHANGED stageRest

\* a probe of quickFilterIps or testIpsConcurrently settles
ProbeSettles ==
  /\ skind \in {"quick", "ping"}
  /\ spc = "await"
  /\ \E k \in spend, v \in Verdicts(skind) :
       /\ sverdict' = [sverdict EXCEPT ![k] = v]
       /\ spend' = spend \ {k}
       /\ sorder' = Append(sorder, k)
  /\ UNCHANGED <<skind, spc, sips, sbase, sout>>
  /\ UNCHANGED stageRest

\* quickFilterIps, lines 197-217: allSettled has resolved
QuickFilterIpsCollect ==
  /\ skind = "quick"
  /\ spc = "await"
  /\ spend = {}
  /\ sout' = Pushed(ResultOrder(1..Len(sips)), sverdict)
  /\ spc' = "done"
  /\ UNCHANGED <<skind, sips, sbase, spend, sverdict, sorder>>
  /\ UNCHANGED stageRest

\* testIpsConcurrently, lines 235-245: the loop starts the batch at i, or
\* the function returns when no address is left
TestIpsBatch(i) ==
  /\ sbase' = i
  /\ IF i < Len(sips)
     THEN /\ spend' = BatchOf(i, Len(sips))
          /\ spc' = "await"
     ELSE /\ spend' = {}
          /\ spc' = "done"

TestIpsCall ==
  /\ skind = "ping"
  /\ spc = "call"
  /\ TestIpsBatch(0)
  /\ UNCHANGED <<skind, sips, sverdict, sorder, sout>>
  /\ UNCHANGED stageRest

\* lines 248-276: the batch has settled; its results are walked by index,
\* then the loop pauses (268-270) if addresses are left, and goes on
TestIpsCollect ==
  /\ skind = "ping"
  /\ spc = "await"
  /\ spend = {}
  /\ sout' = sout \o Pushed(ResultOrder({k \in 1..Len(sips) :
                               k > sbase /\ k <= sbase + batchSize}), sverdict)
  /\ IF sbase + batchSize < Len(sips)
     THEN /\ spc' = "pause"
          /\ UNCHANGED <<sbase, spend>>
     ELSE TestIpsBatch(sbase + batchSize)
  /\ UNCHANGED <<skind, sips, sverdict, sorder>>
  /\ UNCHANGED stageRest

\* the 100 ms pause is over: i += batchSize
TestIpsPauseDone ==
  /\ skind = "ping"
  /\ spc = "pause"
  /\ TestIpsBatch(sbase + batchSize)
  /\ UNCHANGED <<skind, sips, sverdict, sorder, sout>>
  /\ UNCHANGED stageRest

\* getRegionsConcurrently, lines 219-223: the loop awaits getIpRegion for
\* the address at i, or leaves the loop and returns results
GetRegionsLookup(i) ==
  /\ sbase' = i
  /\ IF i < Len(sips)
     THEN /\ spend' = {i + 1}
          /\ spc' = "await"
     ELSE /\ spend' = {}
          /\ spc' = "done"

GetRegionsCall ==
  /\ skind = "geo"
  /\ spc = "call"
  /\ GetRegionsLookup(0)
  /\ UNCHANGED <<skind, sips, sverdict, sorder, sout>>
  /\ UNCHANGED stageRest

\* lines 223-229: getIpRegion returned a code; the record is pushed and
\* every RegionPauseEvery-th lookup is followed by a wait
GetRegionsResult ==
  /\ skind = "geo"
  /\ spc = "await"
  /\ \E regionCode \in Verdicts("geo") :
       /\ sverdict' = [sverdict EXCEPT ![sbase + 1] = regionCode]
       /\ sout' = Append(sout, [ip |-> sips[sbase + 1], val |-> regionCode])
  /\ sorder' = Append(sorder, sbase + 1)
  /\ IF (sbase + 1) % RegionPauseEvery = 0
     THEN /\ spc' = "pause"
          /\ spend' = {}
          /\ sbase' = sbase
     ELSE GetRegionsLookup(sbase + 1)
  /\ UNCHANGED <<skind, sips>>
  /\ UNCHANGED stageRest

\* the queryInterval wait is over
GetRegionsPauseDone ==
  /\ skind = "geo"
  /\ spc = "pause"
  /\ GetRegionsLookup(sbase + 1)
  /\ UNCHANGED <<skind, sips, sverdict, sorder, sout>>
  /\ UNCHANGED stageRest

NextStage ==
  \/ QuickFilterIpsCall
  \/ ProbeSettles
  \/ QuickFilterIpsCollect
  \/ TestIpsCall
  \/ TestIpsCollect
  \/ TestIpsPauseDone
  \/ GetRegionsCall
  \/ GetRegionsResult
  \/ GetRegionsPauseDone

SpecStage == InitStage /\ [][NextStage]_vars

----------------------------------------------------------------------------
(* ipTester.js: testIpAvailability(ip, testPorts, pingCount) *)

\* Largest pingCount explored (the callers pass 5 and 1).
MaxPings == 2

\* line 149: the delay recorded for an attempt in which nothing connected
FailedDelay == 999

RECURSIVE Sum(_)
Sum(ds) == IF ds = <<>> THEN 0 ELSE Head(ds) + Sum(Tail(ds))

RECURSIVE SumSq(_)
SumSq(ds) == IF ds = <<>> THEN 0 ELSE Head(ds) * Head(ds) + SumSq(Tail(ds))

\* Math.min(...ds) of a non-empty array
MinOf(ds) == CHOOSE d \in Range(ds) : \A e \in Range(ds) : d <= e

\* Math.round(x * 100) for x = num / den >= 0, i.e. x rounded to two
\* decimals and counted in hundredths (floating-point error left aside)
Round100(num, den) == (200 * num + den) \div (2 * den)

\* lines 160-161 and 170: the mean of ds, in hundredths
Mean100(ds) == Round100(Sum(ds), Len(ds))

\* the sample variance of ds (divisor n - 1), in hundredths
SampleVariance100(ds) ==
  IF Len(ds) = 1 THEN 0
  ELSE Round100(Len(ds) * SumSq(ds) - Sum(ds) * Sum(ds),
                Len(ds) * (Len(ds) - 1))

\* lines 164-165: the population variance of ds, in hundredths;
\* sum((d - mean)^2) / n = (n * sum(d^2) - sum(d)^2) / n^2
Variance100(ds) ==
  Round100(Len(ds) * SumSq(ds) - Sum(ds) * Sum(ds), Len(ds) * Len(ds))

\* lines 156-176: the statistics returned after the attempts
PingStats(recorded, successes) ==
  LET validDelays == SelectSeq(recorded, LAMBDA d : d < FailedDelay)
  IN  IF successes > 0 /\ Len(validDelays) > 0
      THEN [isAvailable |-> TRUE,
            minDelay |-> MinOf(validDelays),
            avgDelay |-> Mean100(validDelays),
            stability |-> Variance100(validDelays)]
      ELSE Unavailable

\* inputs of one call: the configured [443] (also what testIpBandwidth
\* passes), two ports, a list with an out-of-range port, and a non-array
PingPortsInputs ==
  {[isArray |-> TRUE, items |-> <<443>>],
   [isArray |-> TRUE, items |-> <<443, 8443>>],
   [isArray |-> TRUE, items |-> <<0, 443>>],
   [isArray |-> TRUE, items |-> <<65536>>],
   [isArray |-> FALSE, items |-> <<>>]}
\* delays a connect can report: good, slow, and above the failure marker
PingDelays == {100, 300, 1000}

\* a host that accepts every connection, after these delays in turn
SteadyHost == <<50, 52, 48, 51, 49>>

\* what the next connection can do: anything, or what the host's script says
NextDelays ==
  IF tscript = <<>> THEN PingDelays ELSE {tscript[Len(thist) + 1]}

\* lines 123-153 from the top of ping attempt a with the port loop at
\* position from: the code runs on to the next connect, or to the end of
\* the attempts.  An attempt that ends pushes its minDelay, or 999.
RECURSIVE PingRun(_, _, _, _)
PingRun(a, from, minDelay, recorded) ==
  IF a >= tcount
  THEN [pc |-> "done", attempt |-> a, i |-> 0, min |-> minDelay,
        recorded |-> recorded]
  ELSE LET k == NextPort(tports.items, from)
       IN  IF k <= Len(tports.items)
           THEN [pc |-> "connect", attempt |-> a, i |-> k, min |-> minDelay,
                 recorded |-> recorded]
           ELSE PingRun(a + 1, 1, Infinity,
                        Append(recorded, IF minDelay = Infinity
                                       THEN FailedDelay ELSE minDelay))

\* the state after the code has run on as PingRun says
PingGoes(r, successes) ==
  /\ tpc' = r.pc
  /\ tattempt' = r.attempt
  /\ ti' = r.i
  /\ tmin' = r.min
  /\ allDelays' = r.recorded
  /\ successCount' = successes
  /\ tres' = IF r.pc = "done" THEN PingStats(r.recorded, successes) ELSE tres

PingOthersIdle ==
  /\ GeoIdle
  /\ DnsIdle
  /\ QuickIdle
  /\ StageIdle
  /\ BwIdle
  /\ AdvIdle
  /\ FnIdle
  /\ MainIdle
  /\ MeasIdle
  /\ BatchIdle
  /\ FormatIdle

InitPing ==
  /\ tpc = "call"
  /\ tip \in QuickIps
  /\ \/ /\ tscript = <<>>
        /\ tports \in PingPortsInputs
        /\ tcount \in 1..MaxPings
     \/ /\ tscript = SteadyHost
        /\ tports = [isArray |-> TRUE, items |-> <<443>>]
        /\ tcount = Len(SteadyHost)
  /\ tattempt = 0
  /\ ti = 0
  /\ tmin = Infinity
  /\ allDelays = <<>>
  /\ successCount = 0
  /\ thist = <<>>
  /\ tres = Unavailable
  /\ PingOthersIdle

\* lines 110-133: the argument checks, then the loops up to the first await
PingCall ==
  /\ tpc = "call"
  /\ IF ~isValidIp(tip) \/ ~tports.isArray
     THEN /\ tpc' = "done"
          /\ tres' = Unavailable
          /\ UNCHANGED <<tattempt, ti, tmin, allDelays, successCount>>
     ELSE PingGoes(PingRun(0, 1, Infinity, <<>>), 0)
  /\ UNCHANGED <<tip, tports, tcount, thist>>
  /\ UNCHANGED pingRest

\* lines 133-141 and 148-152: testTcpConnection resolved with a delay; a
\* good delay is pushed and counted and ends the attempt's port loop
PingConnected ==
  /\ tpc = "connect"
  /\ \E delay \in NextDelays :
       /\ thist' = Append(thist, [attempt |-> tattempt, delay |-> delay])
       /\ IF IsGoodDelay(delay)
          THEN PingGoes(PingRun(tattempt, Len(tports.items) + 1,
                                Min(tmin, delay), Append(allDelays, delay)),
                        successCount + 1)
          ELSE PingGoes(PingRun(tattempt, ti + 1, Min(tmin, delay), allDelays),
                        successCount)
  /\ UNCHANGED <<tip, tports, tcount>>
  /\ UNCHANGED pingRest

\* lines 142-144: testTcpConnection rejected
PingRefused ==
  /\ tpc = "connect"
  /\ tscript = <<>>
  /\ thist' = Append(thist, [attempt |-> tattempt, delay |-> Refused])
  /\ PingGoes(PingRun(tattempt, ti + 1, tmin, allDelays), successCount)
  /\ UNCHANGED <<tip, tports, tcount>>
  /\ UNCHANGED pingRest

NextPing ==
  \/ PingCall
  \/ PingConnected
  \/ PingRefused

SpecPing == InitPing /\ [][NextPing]_vars

----------------------------------------------------------------------------
(* config.js:69-187 (bandwidthTester): testIpBandwidth(ip, testSizeMb,       *)
(* testCount).  Bytes are counted in MiB, download time in seconds, speed    *)
(* in bits per second.                                                       *)

\* Largest testCount explored (the caller passes 3).
MaxTestCount == 2
\* Seconds by which the clock moves between two events of a download.
TickSecs == 5
\* Longest a download is followed, in seconds.
MaxElapsed == 20

\* testUrls has two entries (lines 81-85)
NumUrls == 2
\* line 125: Date.now() - startDownload > 10000
TimeCapSecs == 10
\* line 132: dataDownloaded > 10 * 1024 * 1024
ByteCapMiB == 10
\* bits in one MiB
BitsPerMiB == 8388608

\* sizes of the chunks a 'data' event delivers, MiB
ChunkPool == {5}
\* time from the request to the response headers, ms
LatencyPool == {40, 90}
\* status codes axios resolves with
StatusPool == {200, 204}
\* what testIpAvailability(ip, [443], 1) can return (line 175): unavailable,
\* or available with the delay of its one good connect
ProbePool ==
  {[isAvailable |-> FALSE, minDelay |-> 0],
   [isAvailable |-> TRUE, minDelay |-> 100]}

\* line 153: (dataDownloaded * 8) / (downloadTime * 1000000) Mbps, here in
\* whole bits per second
Speed(mib, secs) == (mib * BitsPerMiB) \div secs

\* a probe that never takes the early return
NeverVeryFast(mib, secs) == FALSE

\* line 158: speedMbps > 5
IsVeryFast(mib, secs) == mib * BitsPerMiB > 5 * 1000000 * secs

Max(a, b) == IF a >= b THEN a ELSE b

\* a fallback that never reports fast
FallbackNeverFast(isAvailable, minDelay) ==
  [isFast |-> FALSE, bandwidth |-> 0, latency |-> IF isAvailable THEN minDelay ELSE 0]

\* lines 176-180: the result built from the reachability probe
FallbackResult(isAvailable, minDelay) ==
  IF isAvailable
  THEN [isFast |-> TRUE, bandwidth |-> 0, latency |-> minDelay]
  ELSE NotFast

BwOthersIdle ==
  /\ GeoIdle
  /\ DnsIdle
  /\ QuickIdle
  /\ StageIdle
  /\ PingIdle
  /\ AdvIdle
  /\ FnIdle
  /\ MainIdle
  /\ NetIdle
  /\ BatchIdle
  /\ FormatIdle

InitBw ==
  /\ bpc = "call"
  /\ bip \in QuickIps
  /\ bcount \in 1..MaxTestCount
  /\ battempt = 0
  /\ burl = 0
  /\ bestSpeed = 0
  /\ bestLatency = 0
  /\ blat = 0
  /\ dataDownloaded = 0
  /\ belapsed = 0
  /\ bdownloads = 0
  /\ bgot = FALSE
  /\ bprobe = NoProbe
  /\ bres = NotFast
  /\ bmeasured = {}
  /\ BwOthersIdle

\* lines 106-112: the GET for url number url of attempt att is issued
BwRequest(att, url) ==
  /\ bpc' = "request"
  /\ battempt' = att
  /\ burl' = url
  /\ bdownloads' = bdownloads + 1
  /\ UNCHANGED <<bprobe, bres>>

\* the loops of lines 103-104 go on after url number burl of attempt
\* battempt: the next GET, or lines 171-175 after the loops
BwNext(speed) ==
  IF burl < NumUrls THEN BwRequest(battempt, burl + 1)
  ELSE IF battempt + 1 < bcount THEN BwRequest(battempt + 1, 1)
  ELSE IF speed > 0
  THEN /\ bpc' = "done"
       /\ bres' = [isFast |-> TRUE, bandwidth |-> speed, latency |-> bestLatency']
       /\ UNCHANGED <<battempt, burl, bdownloads, bprobe>>
  ELSE /\ bpc' = "fallback"
       /\ bprobe' = [bprobe EXCEPT !.calls = @ + 1]
       /\ UNCHANGED <<battempt, burl, bdownloads, bres>>

\* lines 148-161: the download promise resolved with mib MiB after secs s
BwMeasure(mib, secs) ==
  IF secs > 0 /\ mib > 0
  THEN /\ bestSpeed' = Max(bestSpeed, Speed(mib, secs))
       /\ bmeasured' = bmeasured \cup {Speed(mib, secs)}
       /\ bestLatency' = IF bestLatency = 0 THEN blat ELSE Min(bestLatency, blat)
       /\ IF IsVeryFast(mib, secs)
          THEN /\ bpc' = "done"
               /\ bres' = [isFast |-> TRUE, bandwidth |-> bestSpeed',
                           latency |-> bestLatency']
               /\ UNCHANGED <<battempt, burl, bdownloads, bprobe>>
          ELSE BwNext(bestSpeed')
  ELSE /\ UNCHANGED <<bestSpeed, bestLatency, bmeasured>>
       /\ BwNext(bestSpeed)

\* lines 69-112: the address check, then the first GET
BwCall ==
  /\ bpc = "call"
  /\ IF ~isValidIp(bip)
     THEN /\ bpc' = "done"
          /\ bres' = NotFast
          /\ UNCHANGED <<battempt, burl, bdownloads, bprobe>>
     ELSE BwRequest(0, 1)
  /\ UNCHANGED <<bip, bcount, bestSpeed, bestLatency, blat, dataDownloaded,
                 belapsed, bgot, bmeasured>>
  /\ UNCHANGED bwRest

\* lines 164-167: the GET rejected (transport error, timeout, status
\* outside 2xx)
BwRequestFails ==
  /\ bpc = "request"
  /\ UNCHANGED <<bestSpeed, bestLatency>>
  /\ BwNext(bestSpeed)
  /\ UNCHANGED <<bip, bcount, blat, dataDownloaded, belapsed, bgot, bmeasured>>
  /\ UNCHANGED bwRest

\* lines 109-120: the GET resolved; with status 200 the download starts
BwResponse ==
  /\ bpc = "request"
  /\ \E status \in StatusPool, latency \in LatencyPool :
       IF status = 200
       THEN /\ bpc' = "stream"
            /\ blat' = latency
            /\ dataDownloaded' = 0
            /\ belapsed' = 0
            /\ UNCHANGED <<battempt, burl, bestSpeed, bestLatency, bdownloads,
                           bprobe, bres>>
       ELSE /\ UNCHANGED <<bestSpeed, bestLatency, blat, dataDownloaded,
                           belapsed>>
            /\ BwNext(bestSpeed)
  /\ UNCHANGED <<bip, bcount, bgot, bmeasured>>
  /\ UNCHANGED bwRest

\* lines 121-137: a 'data' event; the two caps are tested here
BwData ==
  /\ bpc = "stream"
  /\ \E chunk \in ChunkPool :
       /\ dataDownloaded' = dataDownloaded + chunk
       /\ IF belapsed > TimeCapSecs \/ dataDownloaded' > ByteCapMiB
          THEN BwMeasure(dataDownloaded', belapsed)
          ELSE UNCHANGED <<bpc, battempt, burl, bestSpeed, bestLatency,
                           bdownloads, bprobe, bres, bmeasured>>
  /\ bgot' = TRUE
  /\ UNCHANGED <<bip, bcount, blat, belapsed>>
  /\ UNCHANGED bwRest

\* lines 139-141: the stream ended
BwEnd ==
  /\ bpc = "stream"
  /\ BwMeasure(dataDownloaded, belapsed)
  /\ UNCHANGED <<bip, bcount, blat, dataDownloaded, belapsed, bgot>>
  /\ UNCHANGED bwRest

\* lines 143-145 and 164-167: the stream emitted 'error' (a reset, or the
\* abort the HTTP client issues on its own socket timeout)
BwError ==
  /\ bpc = "stream"
  /\ UNCHANGED <<bestSpeed, bestLatency>>
  /\ BwNext(bestSpeed)
  /\ UNCHANGED <<bip, bcount, blat, dataDownloaded, belapsed, bgot, bmeasured>>
  /\ UNCHANGED bwRest

\* time passes while the download promise is pending; no timer of the
\* function is armed
BwTick ==
  /\ bpc = "stream"
  /\ belapsed < MaxElapsed
  /\ belapsed' = belapsed + TickSecs
  /\ UNCHANGED <<bpc, bip, bcount, battempt, burl, bestSpeed, bestLatency,
                 blat, dataDownloaded, bdownloads, bgot, bprobe, bres,
                 bmeasured>>
  /\ UNCHANGED bwRest

\* lines 175-180: testIpAvailability(ip, [443], 1) returned
BwFallbackDone ==
  /\ bpc = "fallback"
  /\ \E r \in ProbePool :
       /\ bprobe' = [bprobe EXCEPT !.isAvailable = r.isAvailable,
                                   !.minDelay = r.minDelay]
       /\ bres' = FallbackResult(r.isAvailable, r.minDelay)
  /\ bpc' = "done"
  /\ UNCHANGED <<bip, bcount, battempt, burl, bestSpeed, bestLatency, blat,
                 dataDownloaded, belapsed, bdownloads, bgot, bmeasured>>
  /\ UNCHANGED bwRest

NextBw ==
  \/ BwCall
  \/ BwRequestFails
  \/ BwResponse
  \/ BwData
  \/ BwEnd
  \/ BwError
  \/ BwTick
  \/ BwFallbackDone

SpecBw == InitBw /\ [][NextBw]_vars

----------------------------------------------------------------------------
(* index.js:163-199: the advanced stages of main, with latencyFilterIps,     *)
(* calculateScore and batchBandwidthTest of config.js (bandwidthTester).     *)
(* avgDelay and stability are counted in hundredths of their unit,           *)
(* bandwidth in hundredths of a Mbps, the score in hundredths of a point.    *)

\* Longest filteredIps handed to the advanced stages.
MaxCands == 4

\* values of latencyFilterPercentage: the configured 30 (config.js:35), a
\* half, and everything
PctPool == {30, 50, 100}

\* a count of n * percentage / 100 rounded up
KeepCountCeil(n, percentage) == Max(1, (n * percentage + 99) \div 100)

\* line 245: Math.max(1, Math.floor(sortedIps.length * percentage / 100))
KeepCount(n, percentage) == Max(1, (n * percentage) \div 100)

\* a sort that puts an item before the items of equal avgDelay
RECURSIVE InsertBeforeEqualDelay(_, _)
InsertBeforeEqualDelay(sorted, item) ==
  IF sorted = <<>> THEN <<item>>
  ELSE IF item.avgDelay <= Head(sorted).avgDelay THEN <<item>> \o sorted
  ELSE <<Head(sorted)>> \o InsertBeforeEqualDelay(Tail(sorted), item)

\* line 242: [...ipsWithLatency].sort((a, b) => a.avgDelay - b.avgDelay);
\* Array.prototype.sort is stable
RECURSIVE InsertByAvgDelay(_, _)
InsertByAvgDelay(sorted, item) ==
  IF sorted = <<>> THEN <<item>>
  ELSE IF item.avgDelay < Head(sorted).avgDelay THEN <<item>> \o sorted
  ELSE <<Head(sorted)>> \o InsertByAvgDelay(Tail(sorted), item)

RECURSIVE SortByAvgDelay(_)
SortByAvgDelay(items) ==
  IF items = <<>> THEN <<>>
  ELSE InsertByAvgDelay(SortByAvgDelay(SubSeq(items, 1, Len(items) - 1)),
                        items[Len(items)])

\* config.js:236-258
latencyFilterIps(ipsWithLatency, percentage) ==
  IF Len(ipsWithLatency) = 0 THEN ipsWithLatency
  ELSE LET sortedIps == SortByAvgDelay(ipsWithLatency)
       IN  SubSeq(sortedIps, 1,
                  Min(Len(sortedIps), KeepCount(Len(sortedIps), percentage)))

\* a score that reads minDelay (ms) where the code reads avgDelay
calculateScoreOnMinDelay(minDelay, avgDelay, bandwidth, stability) ==
  Round100(20 * Max(0, 20000 - minDelay * 100) + 300 * Min(1000, bandwidth)
             + 3 * Max(0, 100000 - stability), 10000)

\* config.js:215-228, in hundredths of a point:
\*   0.4 * max(0, 100 - avgDelay / 2) + 0.3 * min(100, bandwidth * 10)
\*     + 0.3 * max(0, 100 - stability / 10)
\* is, over the denominator 10000,
\*   20 * max(0, 20000 - A) + 300 * min(1000, B) + 3 * max(0, 100000 - S)
\* for A, B, S the hundredths of avgDelay, bandwidth and stability
calculateScore(minDelay, avgDelay, bandwidth, stability) ==
  Round100(20 * Max(0, 20000 - avgDelay) + 300 * Min(1000, bandwidth)
             + 3 * Max(0, 100000 - stability), 10000)

\* a sort that puts an item before the items of equal score
RECURSIVE InsertBeforeTies(_, _)
InsertBeforeTies(sorted, item) ==
  IF sorted = <<>> THEN <<item>>
  ELSE IF item.score >= Head(sorted).score THEN <<item>> \o sorted
  ELSE <<Head(sorted)>> \o InsertBeforeTies(Tail(sorted), item)

\* index.js:190: availableIps.sort((a, b) => b.score - a.score), stable
RECURSIVE InsertByScore(_, _)
InsertByScore(sorted, item) ==
  IF sorted = <<>> THEN <<item>>
  ELSE IF item.score > Head(sorted).score THEN <<item>> \o sorted
  ELSE <<Head(sorted)>> \o InsertByScore(Tail(sorted), item)

RECURSIVE SortByScore(_)
SortByScore(items) ==
  IF items = <<>> THEN <<>>
  ELSE InsertByScore(SortByScore(SubSeq(items, 1, Len(items) - 1)),
                     items[Len(items)])

\* what the second quickFilterIp call of index.js:170 returns
ReprobePool ==
  {[isGood |-> FALSE, delay |-> 0], [isGood |-> TRUE, delay |-> 100],
   [isGood |-> TRUE, delay |-> 300]}

\* what testIpAvailability reports for an address of the stability stage
PingPool ==
  {Unavailable,
   [isAvailable |-> TRUE, minDelay |-> 100, avgDelay |-> 10000, stability |-> 0],
   [isAvailable |-> TRUE, minDelay |-> 100, avgDelay |-> 15000,
    stability |-> 250000]}

\* what testIpBandwidthOnly reports, bandwidth in hundredths of a Mbps
BandwidthPool ==
  {[isFast |-> FALSE, bandwidth |-> 0, latency |-> 0],
   [isFast |-> TRUE, bandwidth |-> 0, latency |-> 100],
   [isFast |-> TRUE, bandwidth |-> 500, latency |-> 40]}

\* the records of the available addresses among ips, given their results
RECURSIVE AvailableOf(_, _)
AvailableOf(ips, results) ==
  IF ips = <<>> THEN <<>>
  ELSE (IF Head(results).isAvailable
        THEN <<[ip |-> Head(ips), minDelay |-> Head(results).minDelay,
                avgDelay |-> Head(results).avgDelay,
                stability |-> Head(results).stability]>>
        ELSE <<>>) \o AvailableOf(Tail(ips), Tail(results))

AdvOthersIdle ==
  /\ GeoIdle
  /\ DnsIdle
  /\ QuickIdle
  /\ StageIdle
  /\ PingIdle
  /\ BwIdle
  /\ FnIdle
  /\ MainIdle
  /\ NetIdle
  /\ MeasIdle
  /\ BatchIdle
  /\ FormatIdle

\* main has passed the return of line 116, so filteredIps is not empty
InitAdv ==
  /\ apc = "reprobe"
  /\ afiltered \in {SubSeq(StageAddrs, 1, n) :
                      n \in 1..Min(MaxCands, Len(StageAddrs))}
  /\ apct \in PctPool
  /\ ai = 1
  /\ quickFilterResults = <<>>
  /\ latencyFilteredIps = <<>>
  /\ tcpPingResults = <<>>
  /\ bandwidthResults = <<>>
  /\ availableIps = <<>>
  /\ AdvOthersIdle

\* index.js:169-179: quickFilterIp returned for filteredIps[ai]; after the
\* last address latencyFilterIps runs and testIpsConcurrently is called
Reprobed ==
  /\ apc = "reprobe"
  /\ \E r \in ReprobePool :
       quickFilterResults' =
         IF r.isGood
         THEN Append(quickFilterResults,
                     [ip |-> afiltered[ai], minDelay |-> r.delay,
                      avgDelay |-> r.delay * 100, stability |-> 0])
         ELSE quickFilterResults
  /\ IF ai < Len(afiltered)
     THEN /\ ai' = ai + 1
          /\ UNCHANGED <<apc, latencyFilteredIps>>
     ELSE /\ ai' = 0
          /\ latencyFilteredIps' = latencyFilterIps(quickFilterResults', apct)
          /\ apc' = "ping"
  /\ UNCHANGED <<afiltered, apct, tcpPingResults, bandwidthResults, availableIps>>
  /\ UNCHANGED advRest

\* config.js:266-273: batchBandwidthTest probes ipData[i], or returns
BandwidthLoop(i, ipData) ==
  IF i <= Len(ipData)
  THEN /\ apc' = "bandwidth"
       /\ ai' = i
  ELSE /\ apc' = "rank"
       /\ ai' = 0

\* index.js:180-185: testIpsConcurrently returned the available addresses
\* of latencyFilteredIps with their statistics; batchBandwidthTest starts
TcpPingDone ==
  /\ apc = "ping"
  /\ \E results \in [1..Len(latencyFilteredIps) -> PingPool] :
       tcpPingResults' =
         AvailableOf([k \in 1..Len(latencyFilteredIps) |->
                        latencyFilteredIps[k].ip], results)
  /\ BandwidthLoop(1, tcpPingResults')
  /\ UNCHANGED <<afiltered, apct, quickFilterResults, latencyFilteredIps,
                 bandwidthResults, availableIps>>
  /\ UNCHANGED advRest

\* config.js:272-287: testIpBandwidthOnly returned for ipData[ai]
BandwidthTested ==
  /\ apc = "bandwidth"
  /\ \E r \in BandwidthPool :
       bandwidthResults' =
         IF r.isFast
         THEN LET d == tcpPingResults[ai]
              IN  Append(bandwidthResults,
                         [ip |-> d.ip, minDelay |-> d.minDelay,
                          avgDelay |-> d.avgDelay, stability |-> d.stability,
                          bandwidth |-> r.bandwidth, latency |-> r.latency,
                          score |-> calculateScore(d.minDelay, d.avgDelay,
                                                   r.bandwidth, d.stability)])
         ELSE bandwidthResults
  /\ BandwidthLoop(ai + 1, tcpPingResults)
  /\ UNCHANGED <<afiltered, apct, quickFilterResults, latencyFilteredIps,
                 tcpPingResults, availableIps>>
  /\ UNCHANGED advRest

\* index.js:185-199: batchBandwidthTest returned; a non-empty result is
\* sorted by score and saved
RankResults ==
  /\ apc = "rank"
  /\ availableIps' = IF Len(bandwidthResults) > 0
                     THEN SortByScore(bandwidthResults)
                     ELSE bandwidthResults
  /\ apc' = "done"
  /\ UNCHANGED <<afiltered, apct, ai, quickFilterResults, latencyFilteredIps,
                 tcpPingResults, bandwidthResults>>
  /\ UNCHANGED advRest

NextAdv ==
  \/ Reprobed
  \/ TcpPingDone
  \/ BandwidthTested
  \/ RankResults

SpecAdv == InitAdv /\ [][NextAdv]_vars

----------------------------------------------------------------------------
(* calculateScore, latencyFilterIps and the cache freshness tests, each    *)
(* called on its own with arguments drawn from small pools                 *)

\* Length of the longest candidate list given to latencyFilterIps.
MaxRanked == 10

\* minDelay in ms; avgDelay and stability in hundredths; bandwidth in
\* hundredths of a Mbps
ScoreMinDelays == {0, 10, 48}
ScoreAvgDelays == {0, 1000, 5000, 20000, 30000}
ScoreBandwidths == {0, 500, 1000, 2000}
ScoreStabilities == {0, 160, 100000, 200000}

ScoreInputs ==
  {[name |-> "calculateScore", minDelay |-> m, avgDelay |-> a,
    bandwidth |-> b, stability |-> s] :
     m \in ScoreMinDelays, a \in ScoreAvgDelays, b \in ScoreBandwidths,
     s \in ScoreStabilities}

\* delays (ms) given to the candidates of a list, read cyclically from a
\* starting point; three delays occur twice
DelayPattern == <<50, 20, 40, 20, 90, 10, 40, 70, 10, 60>>

PatternDelay(k, r) == DelayPattern[((k + r - 1) % Len(DelayPattern)) + 1]

\* a candidate list of n records; the k-th address is 10.0.0.k
Candidates(n, r) ==
  [k \in 1..n |-> [ip |-> k, minDelay |-> PatternDelay(k, r),
                   avgDelay |-> PatternDelay(k, r) * 100, stability |-> 0]]

LatencyInputs ==
  {[name |-> "latencyFilterIps", ipsWithLatency |-> Candidates(n, r),
    percentage |-> p] :
     n \in 0..MaxRanked, r \in 0..(Len(DelayPattern) - 1), p \in PctPool}

\* ttlHours as passed by index.js:268 and geoResolver.js:223, and the
\* default of geoResolver.js:51
TtlPool == {24, 168}

\* a cache entry without a timestamp, or one whose age is one hour either
\* side of ttlHours, exactly ttlHours, or zero
CacheTestInputs ==
  UNION {{[name |-> "cacheTests", timestamp |-> ts, ttlHours |-> ttl,
           now |-> StartHour] :
            ts \in {NoTs, StartHour - ttl - 1, StartHour - ttl,
                    StartHour - ttl + 1, StartHour}} :
         ttl \in TtlPool}

\* config.js:242: [...ipsWithLatency].sort(...) sorts a copy; source is the
\* argument array afterwards
SpreadSort(arr) == [source |-> arr, sorted |-> SortByAvgDelay(arr)]

\* the one-entry cache object holding the entry under test
CacheOf(timestamp) == <<[ip |-> "1.1.1.1", region |-> "CN", ts |-> timestamp]>>

FnOthersIdle ==
  /\ GeoIdle
  /\ DnsIdle
  /\ QuickIdle
  /\ StageIdle
  /\ PingIdle
  /\ BwIdle
  /\ AdvIdle
  /\ MainIdle
  /\ NetIdle
  /\ MeasIdle
  /\ BatchIdle
  /\ FormatIdle

InitFn ==
  /\ fpc = "call"
  /\ fargs \in ScoreInputs \cup LatencyInputs \cup CacheTestInputs
  /\ fgiven = fargs
  /\ fret = [done |-> FALSE]
  /\ FnOthersIdle

\* config.js:215-228
CallCalculateScore ==
  /\ fpc = "call"
  /\ fargs.name = "calculateScore"
  /\ fret' = [done |-> TRUE,
              value |-> calculateScore(fargs.minDelay, fargs.avgDelay,
                                       fargs.bandwidth, fargs.stability)]
  /\ fpc' = "done"
  /\ UNCHANGED <<fargs, fgiven>>
  /\ UNCHANGED fnRest

\* config.js:236-258
CallLatencyFilterIps ==
  /\ fpc = "call"
  /\ fargs.name = "latencyFilterIps"
  /\ fret' = [done |-> TRUE,
              value |-> latencyFilterIps(fargs.ipsWithLatency,
                                         fargs.percentage)]
  /\ fargs' = [fargs EXCEPT
                 !.ipsWithLatency = SpreadSort(fargs.ipsWithLatency).source]
  /\ fpc' = "done"
  /\ UNCHANGED fgiven
  /\ UNCHANGED fnRest

\* one cache entry put, at the same instant, to isCacheValid
\* (geoResolver.js:51-59), to the expiry loop of cleanExpiredCache
\* (geoResolver.js:70-83) and to the cache test of getIpRegion
\* (geoResolver.js:116-128)
CallCacheTests ==
  /\ fpc = "call"
  /\ fargs.name = "cacheTests"
  /\ fret' = [done |-> TRUE,
              valid |-> isCacheValid(fargs.timestamp, fargs.ttlHours,
                                     fargs.now),
              expired |-> "1.1.1.1" \in ExpiredKeys(CacheOf(fargs.timestamp),
                                                    fargs.ttlHours, fargs.now),
              probe |-> CacheProbe(CacheOf(fargs.timestamp), "1.1.1.1",
                                   fargs.ttlHours, fargs.now)]
  /\ fpc' = "done"
  /\ UNCHANGED <<fargs, fgiven>>
  /\ UNCHANGED fnRest

NextFn ==
  \/ CallCalculateScore
  \/ CallLatencyFilterIps
  \/ CallCacheTests

SpecFn == InitFn /\ [][NextFn]_vars

----------------------------------------------------------------------------
(* main(), index.js:33-255, from cleanOutputFiles to its return.  The      *)
(* callees are taken by what they return; the advanced stages are the      *)
(* actions of SpecAdv.                                                     *)

\* Number of domains loadDomainList can return.
MaxDomains == 2
\* Number of output files whose removal fails in one cleanOutputFiles call.
MaxRemovalFailures == 1

\* fileUtils.js:114-120
filesToDelete ==
  {"DNSIPlist.txt", "SenflareDNS.txt", "DNSIPlist-Pro.txt",
   "SenflareDNS-Pro.txt", "Ranking.txt"}

\* the working directory before a run: empty, or holding what an earlier
\* advanced run left
OldFiles == {{}, {"DNSIPlist.txt", "Ranking.txt"}}

DomainNames == <<"a.example", "b.example", "c.example">>
DomainLists == {SubSeq(DomainNames, 1, n) :
                  n \in 0..Min(MaxDomains, Len(DomainNames))}

\* what resolveDomain gives for one domain: a list without repetition,
\* possibly empty, or a rejection
NoAnswer == [ok |-> FALSE, ips |-> <<>>]
DomainAnswers ==
  {NoAnswer}
    \cup {[ok |-> TRUE, ips |-> a] :
            a \in {<<>>, <<"1.1.1.1", "1.0.0.1">>, <<"8.8.8.8", "1.1.1.1">>}}

\* a cleanup that removes nothing
LeaveAll(present, failed) == present

\* fileUtils.js:9-19, 113-127: every listed file that exists is removed,
\* unless fs.remove rejects, which is logged and passed over
CleanOutput(present, failed) == (present \ filesToDelete) \cup failed

\* what new Set(allIps) keeps, with its members repeated
KeepAll(ips) == ips

\* index.js:84: [...new Set(allIps)], the first occurrences in order
RECURSIVE SetOf(_)
SetOf(ips) ==
  IF ips = <<>> THEN <<>>
  ELSE LET front == SetOf(SubSeq(ips, 1, Len(ips) - 1))
           last == ips[Len(ips)]
       IN  IF last \in Range(front) THEN front ELSE Append(front, last)

\* the place of an address in the numeric order of its four parts
NumericRank(ip) == CHOOSE k \in 1..Len(GeoIps) : GeoIps[k] = ip

\* index.js:84-94: sort by the comparator on the four parts
RECURSIVE InsertNumeric(_, _)
InsertNumeric(sorted, ip) ==
  IF sorted = <<>> THEN <<ip>>
  ELSE IF NumericRank(ip) < NumericRank(Head(sorted)) THEN <<ip>> \o sorted
  ELSE <<Head(sorted)>> \o InsertNumeric(Tail(sorted), ip)

RECURSIVE SortNumeric(_)
SortNumeric(ips) ==
  IF ips = <<>> THEN <<>>
  ELSE InsertNumeric(SortNumeric(SubSeq(ips, 1, Len(ips) - 1)), ips[Len(ips)])

UniqueSorted(ips) == SortNumeric(SetOf(ips))

\* fs.writeFile of a save function: the file exists afterwards.  A write
\* that fails is caught and logged by the save function and main goes on
\* in the same way; such runs are not followed here.
Written(present, filename) == present \cup {filename}

MainOthersIdle ==
  /\ GeoIdle
  /\ DnsIdle
  /\ QuickIdle
  /\ StageIdle
  /\ PingIdle
  /\ BwIdle
  /\ AdvIdle
  /\ FnIdle
  /\ NetIdle
  /\ MeasIdle
  /\ BatchIdle
  /\ FormatIdle

InitMain ==
  /\ mpc = "clean"
  /\ files \in OldFiles
  /\ undeleted = {}
  /\ domains = <<>>
  /\ mi = 0
  /\ allIpsMain = <<>>
  /\ uniqueIps = <<>>
  /\ filteredIps = <<>>
  /\ probed = <<>>
  /\ stages = {}
  /\ mexit = "none"
  /\ MainOthersIdle

\* a return statement of main
Return(path) ==
  /\ mpc' = "returned"
  /\ mexit' = path

\* index.js:38: cleanOutputFiles
CleanOutputFiles ==
  /\ mpc = "clean"
  /\ \E failed \in {s \in SUBSET (files \cap filesToDelete) :
                      Cardinality(s) <= MaxRemovalFailures} :
       /\ files' = CleanOutput(files, failed)
       /\ undeleted' = failed
  /\ mpc' = "load"
  /\ UNCHANGED <<domains, mi, allIpsMain, uniqueIps, filteredIps, probed,
                 stages, mexit>>
  /\ UNCHANGED mainRest

\* index.js:42-47: loadDomainList returned (the empty list when the file is
\* missing or unreadable, fileUtils.js:25-54)
LoadDomainList ==
  /\ mpc = "load"
  /\ \E list \in DomainLists :
       /\ domains' = list
       /\ IF Len(list) = 0
          THEN /\ Return("noDomains")
               /\ UNCHANGED <<mi, stages>>
          ELSE /\ mpc' = "resolve"
               /\ mi' = 1
               /\ stages' = stages \cup {"resolve"}
               /\ UNCHANGED mexit
  /\ UNCHANGED <<files, undeleted, allIpsMain, uniqueIps, filteredIps, probed>>
  /\ UNCHANGED mainRest

\* index.js:54-117: resolveDomain settled for domains[mi]; after the last
\* domain the addresses are deduplicated and sorted and, unless there is
\* none, quickFilterIps is called
ResolveDomain ==
  /\ mpc = "resolve"
  /\ \E answer \in DomainAnswers :
       allIpsMain' = IF answer.ok /\ Len(answer.ips) > 0
                     THEN allIpsMain \o answer.ips
                     ELSE allIpsMain
  /\ IF mi < Len(domains)
     THEN /\ mi' = mi + 1
          /\ UNCHANGED <<mpc, uniqueIps, probed, stages, mexit>>
     ELSE /\ mi' = 0
          /\ uniqueIps' = UniqueSorted(allIpsMain')
          /\ IF Len(uniqueIps') = 0
             THEN /\ Return("noIps")
                  /\ UNCHANGED <<probed, stages>>
             ELSE /\ mpc' = "quick"
                  /\ probed' = uniqueIps'
                  /\ stages' = stages \cup {"quickFilter"}
                  /\ UNCHANGED mexit
  /\ UNCHANGED <<files, undeleted, domains, filteredIps>>
  /\ UNCHANGED mainRest

\* index.js:110-128: quickFilterIps returned the addresses that passed, in
\* input order; unless there is none, DNSIPlist.txt is saved and
\* getRegionsConcurrently is called
QuickFiltered ==
  /\ mpc = "quick"
  /\ \E passed \in SubSeqs(uniqueIps) :
       /\ filteredIps' = passed
       /\ IF Len(passed) = 0
          THEN /\ Return("noneFiltered")
               /\ UNCHANGED <<files, stages>>
          ELSE /\ files' = Written(files, "DNSIPlist.txt")
               /\ mpc' = "regions"
               /\ stages' = stages \cup {"saveBasic", "regions"}
               /\ UNCHANGED mexit
  /\ UNCHANGED <<undeleted, domains, mi, allIpsMain, uniqueIps, probed>>
  /\ UNCHANGED mainRest

\* index.js:128-169: getRegionsConcurrently returned a record per address;
\* SenflareDNS.txt is saved and the advanced stages begin
RegionsDone ==
  /\ mpc = "regions"
  /\ files' = Written(files, "SenflareDNS.txt")
  /\ mpc' = "advanced"
  /\ stages' = stages \cup {"advanced"}
  /\ apc' = "reprobe"
  /\ afiltered' = filteredIps
  /\ apct' \in PctPool
  /\ ai' = 1
  /\ UNCHANGED <<quickFilterResults, latencyFilteredIps, tcpPingResults,
                 bandwidthResults, availableIps>>
  /\ UNCHANGED <<undeleted, domains, mi, allIpsMain, uniqueIps, filteredIps,
                 probed, mexit>>
  /\ UNCHANGED <<geoVars, dnsVars, quickVars, stageVars, pingVars, bwVars,
                 fnVars, netVars, measVars, batchVars, formatVars>>

\* index.js:188-206: a non-empty ranking is saved to DNSIPlist-Pro.txt and
\* Ranking.txt and its addresses go to getRegionsConcurrently; an empty one
\* leads to saveRegionCache and the end of main
ProSaved ==
  /\ mpc = "advanced"
  /\ apc = "done"
  /\ IF Len(availableIps) > 0
     THEN /\ files' = Written(Written(files, "DNSIPlist-Pro.txt"),
                                "Ranking.txt")
          /\ mpc' = "regions2"
          /\ stages' = stages \cup {"savePro", "regions2"}
          /\ UNCHANGED mexit
     ELSE /\ Return("completed")
          /\ UNCHANGED <<files, stages>>
  /\ UNCHANGED <<undeleted, domains, mi, allIpsMain, uniqueIps, filteredIps,
                 probed>>
  /\ UNCHANGED mainRest

\* index.js:206-249: the second getRegionsConcurrently returned;
\* SenflareDNS-Pro.txt is saved, then the cache, and main ends
ProRegionsDone ==
  /\ mpc = "regions2"
  /\ files' = Written(files, "SenflareDNS-Pro.txt")
  /\ Return("completed")
  /\ UNCHANGED <<undeleted, domains, mi, allIpsMain, uniqueIps, filteredIps,
                 probed, stages>>
  /\ UNCHANGED mainRest

NextMain ==
  \/ CleanOutputFiles
  \/ LoadDomainList
  \/ ResolveDomain
  \/ QuickFiltered
  \/ RegionsDone
  \/ Reprobed
  \/ TcpPingDone
  \/ BandwidthTested
  \/ RankResults
  \/ ProSaved
  \/ ProRegionsDone

SpecMain == InitMain /\ [][NextMain]_vars

----------------------------------------------------------------------------
(* batchBandwidthTest(ipData, testSizeMb), config.js:266-290, called on its  *)
(* own: every testIpBandwidthOnly call is a step, and its return another.    *)

\* Longest ipData handed to batchBandwidthTest.
MaxBatch == 3

\* what testIpsConcurrently hands over: records of available addresses
BatchStats == PingPool \ {Unavailable}

BatchInputs ==
  UNION {{[k \in 1..n |-> [ip |-> StageAddrs[k], minDelay |-> st[k].minDelay,
                           avgDelay |-> st[k].avgDelay,
                           stability |-> st[k].stability]] :
            st \in [1..n -> BatchStats]} :
         n \in 0..Min(MaxBatch, Len(StageAddrs))}

\* the object of lines 277-285
BatchRecord(d, r) ==
  [ip |-> d.ip, minDelay |-> d.minDelay, avgDelay |-> d.avgDelay,
   stability |-> d.stability, bandwidth |-> r.bandwidth,
   latency |-> r.latency,
   score |-> calculateScore(d.minDelay, d.avgDelay, r.bandwidth, d.stability)]

\* a loop body that pushes the record whatever the probe reported
PushAlways(results, d, r) == Append(results, BatchRecord(d, r))

\* lines 275-286: if (isFast) { bandwidthResults.push({...}) }
PushIfFast(results, d, r) ==
  IF r.isFast THEN Append(results, BatchRecord(d, r)) ELSE results

BatchOthersIdle ==
  /\ GeoIdle
  /\ DnsIdle
  /\ QuickIdle
  /\ StageIdle
  /\ PingIdle
  /\ BwIdle
  /\ AdvIdle
  /\ FnIdle
  /\ MainIdle
  /\ NetIdle
  /\ MeasIdle
  /\ FormatIdle

\* lines 266-271: bandwidthResults = [], i = 0
InitBatch ==
  /\ kpc = "loop"
  /\ kdata \in BatchInputs
  /\ ki = 1
  /\ kflight = {}
  /\ kreports = <<>>
  /\ kresults = <<>>
  /\ BatchOthersIdle

\* line 273: testIpBandwidthOnly(ip, i + 1, ipData.length, testSizeMb) is
\* called for ipData[i] and awaited
BatchProbeCalled ==
  /\ kpc = "loop"
  /\ ki <= Len(kdata)
  /\ kflight' = kflight \cup {ki}
  /\ kpc' = "await"
  /\ UNCHANGED <<kdata, ki, kreports, kresults>>
  /\ UNCHANGED batchRest

\* lines 273-287: the awaited call returns, the record is pushed if the
\* address is fast, and the loop goes on to i + 1
BatchProbeReturned ==
  /\ kpc = "await"
  /\ \E r \in BandwidthPool :
       /\ kreports' = Append(kreports, r)
       /\ kresults' = PushIfFast(kresults, kdata[ki], r)
  /\ kflight' = kflight \ {ki}
  /\ ki' = ki + 1
  /\ kpc' = "loop"
  /\ UNCHANGED kdata
  /\ UNCHANGED batchRest

\* line 289: return bandwidthResults
BatchReturn ==
  /\ kpc = "loop"
  /\ ki > Len(kdata)
  /\ kpc' = "returned"
  /\ UNCHANGED <<kdata, ki, kflight, kreports, kresults>>
  /\ UNCHANGED batchRest

NextBatch ==
  \/ BatchProbeCalled
  \/ BatchProbeReturned
  \/ BatchReturn

SpecBatch == InitBatch /\ [][NextBatch]_vars

----------------------------------------------------------------------------
(* main, index.js:123-161 and 201-238: one geolocation pass with the        *)
(* grouping and formatting that follow it, run on its own.  A formatted     *)
(* record `${ip}#${code} ${region}... | ${rank}` is kept as its four parts. *)

\* Longest address list given to a pass.
MaxGroup == 3

\* config.js:39-57, the entries of the codes used here; the Chinese names
\* are written in pinyin
countryMapping ==
  [US |-> "Meiguo", GB |-> "Yingguo", UK |-> "Yingguo", Unknown |-> "Weizhi"]

\* geoResolver.js:201-203: countryMapping[code] || code
getCountryName(code) ==
  IF code \in DOMAIN countryMapping THEN countryMapping[code] ELSE code

\* what getIpRegion returns: mapped codes, two of them for one country,
\* Unknown, and a code the mapping does not hold
CodePool == {"US", "GB", "UK", "Unknown", "XX"}

\* the names of the pool's countries in the order Array.prototype.sort
\* without a comparator gives the names of the source (UTF-16 code units:
\* XX, U+672A.., U+7F8E.., U+82F1..)
NameOrder == <<"XX", "Weizhi", "Meiguo", "Yingguo">>

\* delays (ms) the quick filter measured for the addresses of the first pass
QuickDelays == {20, 50}

\* the first pass: filteredIps in address order (index.js:86-96, 112)
BasicSources ==
  UNION {{[k \in 1..n |-> [ip |-> GeoIps[k], minDelay |-> d[k]]] :
            d \in [1..n -> QuickDelays]} :
         n \in 1..Min(MaxGroup, Len(GeoIps))}

\* statistics and bandwidth (hundredths) of a ranked address
RankedStats ==
  {[minDelay |-> 100, avgDelay |-> 10000, stability |-> 0, bandwidth |-> 0],
   [minDelay |-> 150, avgDelay |-> 15000, stability |-> 0, bandwidth |-> 500]}

\* the second pass: availableIps, sorted by score at index.js:190
ProSources ==
  UNION {{LET ranked ==
                SortByScore([k \in 1..n |->
                  [ip |-> GeoIps[k], minDelay |-> st[k].minDelay,
                   score |-> calculateScore(st[k].minDelay, st[k].avgDelay,
                                            st[k].bandwidth,
                                            st[k].stability)]])
          IN  [k \in 1..n |-> [ip |-> ranked[k].ip,
                               minDelay |-> ranked[k].minDelay]] :
            st \in [1..n -> RankedStats]} :
         n \in 1..Min(MaxGroup, Len(GeoIps))}

\* lines 126 and 204: the records handed to getRegionsConcurrently
IpDelayData(source) ==
  [k \in 1..Len(source) |-> [ip |-> source[k].ip, minDelay |-> 0,
                             avgDelay |-> 0]]

\* geoResolver.js:219-224: one result per input, in input order
RegionResults(data, codes) ==
  [k \in 1..Len(data) |-> [ip |-> data[k].ip, regionCode |-> codes[k],
                           minDelay |-> data[k].minDelay,
                           avgDelay |-> data[k].avgDelay]]

\* lines 131-138 / 209-216: regionGroups[countryName].push(...)
RECURSIVE GroupRegions(_)
GroupRegions(results) ==
  IF results = <<>> THEN <<>>
  ELSE LET groups == GroupRegions(SubSeq(results, 1, Len(results) - 1))
           r == results[Len(results)]
           countryName == getCountryName(r.regionCode)
           item == [ip |-> r.ip, regionCode |-> r.regionCode,
                    minDelay |-> r.minDelay, avgDelay |-> r.avgDelay]
       IN  IF \E k \in 1..Len(groups) : groups[k].name = countryName
           THEN [k \in 1..Len(groups) |->
                   IF groups[k].name = countryName
                   THEN [groups[k] EXCEPT !.items = Append(@, item)]
                   ELSE groups[k]]
           ELSE Append(groups, [name |-> countryName, items |-> <<item>>])

\* lines 148 / 226: .sort((a, b) => a.minDelay - b.minDelay), stable
RECURSIVE InsertByMinDelay(_, _)
InsertByMinDelay(sorted, item) ==
  IF sorted = <<>> THEN <<item>>
  ELSE IF item.minDelay < Head(sorted).minDelay THEN <<item>> \o sorted
  ELSE <<Head(sorted)>> \o InsertByMinDelay(Tail(sorted), item)

RECURSIVE SortByMinDelay(_)
SortByMinDelay(items) ==
  IF items = <<>> THEN <<>>
  ELSE InsertByMinDelay(SortByMinDelay(SubSeq(items, 1, Len(items) - 1)),
                        items[Len(items)])

\* lines 144 / 222: Object.keys(regionGroups).sort()
SortedRegions(groups) ==
  LET Present(name) == \E k \in 1..Len(groups) : groups[k].name = name
  IN  SelectSeq(NameOrder, Present)

GroupOf(groups, name) ==
  groups[CHOOSE k \in 1..Len(groups) : groups[k].name = name]

\* Number.prototype.toString
Digits == <<"0", "1", "2", "3", "4", "5", "6", "7", "8", "9">>

RECURSIVE toString(_)
toString(n) ==
  IF n < 10 THEN Digits[n + 1]
  ELSE toString(n \div 10) \o Digits[(n % 10) + 1]

\* String.prototype.padStart(2, '0')
padStart(str) == IF Len(str) >= 2 THEN str ELSE "0" \o str

\* const { ip, code } = sortedIps[idx]: a property the object does not
\* have reads as undefined, which a template literal writes as "undefined"
Property(item, key) ==
  IF key \in DOMAIN item THEN item[key] ELSE "undefined"

\* lines 149-152 / 227-230: the records of one region
RegionRecords(region, sortedIps) ==
  [idx \in 1..Len(sortedIps) |->
     [ip |-> Property(sortedIps[idx], "ip"),
      code |-> Property(sortedIps[idx], "code"),
      region |-> region,
      rank |-> padStart(toString(idx))]]

\* lines 143-154 / 221-232: the records of every region, region by region
RECURSIVE FormatRegions(_, _)
FormatRegions(groups, regions) ==
  IF regions = <<>> THEN <<>>
  ELSE RegionRecords(Head(regions),
                     SortByMinDelay(GroupOf(groups, Head(regions)).items))
         \o FormatRegions(groups, Tail(regions))

\* the groups after the in-place sorts of lines 148 / 226
SortedGroups(groups) ==
  [k \in 1..Len(groups) |->
     [groups[k] EXCEPT !.items = SortByMinDelay(@)]]

FormatOthersIdle ==
  /\ GeoIdle
  /\ DnsIdle
  /\ QuickIdle
  /\ StageIdle
  /\ PingIdle
  /\ BwIdle
  /\ AdvIdle
  /\ FnIdle
  /\ MainIdle
  /\ NetIdle
  /\ MeasIdle
  /\ BatchIdle

\* main is about to call getRegionsConcurrently (line 128 or 206)
InitFormat ==
  /\ gpc = "regions"
  /\ gsource \in BasicSources \cup ProSources
  /\ regionResults = <<>>
  /\ regionGroups = <<>>
  /\ result = <<>>
  /\ FormatOthersIdle

\* lines 128-156 / 206-234: getRegionsConcurrently returned; the results
\* are grouped, each group is sorted and formatted
RegionsReturned ==
  /\ gpc = "regions"
  /\ \E codes \in [1..Len(gsource) -> CodePool] :
       regionResults' = RegionResults(IpDelayData(gsource), codes)
  /\ regionGroups' = SortedGroups(GroupRegions(regionResults'))
  /\ result' = FormatRegions(GroupRegions(regionResults'),
                             SortedRegions(GroupRegions(regionResults')))
  /\ gpc' = IF Len(result') > 0 THEN "save" ELSE "done"
  /\ UNCHANGED gsource
  /\ UNCHANGED formatRest

\* lines 158 / 235: saveFormattedRecords returned
RecordsSaved ==
  /\ gpc = "save"
  /\ gpc' = "done"
  /\ UNCHANGED <<gsource, regionResults, regionGroups, result>>
  /\ UNCHANGED formatRest

NextFormat ==
  \/ RegionsReturned
  \/ RecordsSaved

SpecFormat == InitFormat /\ [][NextFormat]_vars

----------------------------------------------------------------------------
(* Properties of the geolocation cache, checked under SpecGeo *)

\* a step in which getIpRegion is called for the head of the queue
LookupCalled ==
  /\ pc \in {"geo1", "geo2"}
  /\ lk = "none"
  /\ queue # <<>>
  /\ (queue' # queue \/ lk' # lk)

\* the cache holds for ip a timestamped entry younger than the freshness TTL
FreshEntry(ip) ==
  /\ ip \in Keys(regionCache)
  /\ Entry(regionCache, ip).ts # NoTs
  /\ now - Entry(regionCache, ip).ts < 168

ServedFromCache(ip) ==
  /\ cur'.ip = ip
  /\ cur'.done
  /\ cur'.code = Entry(regionCache, ip).region
  /\ ~cur'.primary
  /\ ~cur'.secondary
  /\ lk' = "none"
  /\ regionCache' = regionCache

\* C1: a getIpRegion call for an address whose timestamped cache entry is
\* younger than the freshness TTL returns that entry's country code, queries
\* neither geolocation service and leaves the cache unchanged.
C1_FreshHitServedFromCache ==
  [][(LookupCalled /\ FreshEntry(Head(queue))) => ServedFromCache(Head(queue))]_vars

\* a fresh timestamped entry has just been served without a request
C1_Witness ==
  /\ cur.done
  /\ ~cur.primary
  /\ cur.ip \in Keys(regionCache)
  /\ Entry(regionCache, cur.ip).ts # NoTs
  /\ cur.code = "CN"
  /\ now - Entry(regionCache, cur.ip).ts = 167

\* the cache holds no entry for ip, or a timestamped one that is stale
NoUsableEntry(ip) ==
  \/ ip \notin Keys(regionCache)
  \/ /\ Entry(regionCache, ip).ts # NoTs
     /\ now - Entry(regionCache, ip).ts >= 168

C2_ChainState ==
  \* the secondary is queried only after the primary was, and failed
  /\ cur.secondary => (cur.primary /\ cur.pfail)
  \* and whenever the primary failed
  /\ cur.pfail => cur.secondary
  /\ (lk = "primary") = (cur.primary /\ ~cur.pfail /\ ~cur.done)
  /\ (lk = "secondary") = (cur.secondary /\ ~cur.done)
  \* a lookup that went to the network leaves the returned code in the cache
  /\ (cur.done /\ cur.primary) =>
        /\ cur.ip \in Keys(regionCache)
        /\ Entry(regionCache, cur.ip).region = cur.code
        /\ Entry(regionCache, cur.ip).ts = cur.at
  \* both failed: Unknown is returned (and, by the above, stored)
  /\ (cur.done /\ cur.pfail /\ cur.sfail) => cur.code = "Unknown"
  /\ (cur.done /\ cur.secondary /\ ~cur.sfail) => cur.code = "DE"
  /\ (cur.done /\ cur.primary /\ ~cur.pfail) => cur.code = "US"

C2_ChainStep ==
  \* without a usable entry the primary is queried, and only the primary
  /\ (LookupCalled /\ NoUsableEntry(Head(queue))) =>
        (lk' = "primary" /\ cur'.primary /\ ~cur'.secondary /\ ~cur'.done)
  \* a cached Unknown is served from the cache within the TTL
  /\ (LookupCalled /\ FreshEntry(Head(queue))
        /\ Entry(regionCache, Head(queue)).region = "Unknown") =>
        (cur'.code = "Unknown" /\ ~cur'.primary /\ ~cur'.secondary /\ cur'.done)

\* C2: without a fresh entry the primary service is queried first; the
\* secondary is queried exactly when the primary failed; when both fail
\* {Unknown, now} is stored and Unknown returned, and a later lookup within
\* the TTL returns Unknown without a request; after a lookup that went to
\* the network the cache entry of the address holds the returned code.
C2_FallbackChain == [](C2_ChainState) /\ [][C2_ChainStep]_vars

\* a cached Unknown of this run has been served again without a request
C2_Witness ==
  /\ pc = "geo2"
  /\ cur.done
  /\ ~cur.primary
  /\ cur.code = "Unknown"
  /\ Entry(regionCache, cur.ip).ts >= StartHour

\* the entries of the loaded file that the expiry pass leaves
Unexpired ==
  {e \in Range(LoadedCache(disk)) :
     e.ts = NoTs \/ (cleanedAt - e.ts) < cacheTtlHours}

\* C3: when more than the maximum number of entries remain after the expiry
\* pass, cleanExpiredCache leaves exactly the maximum number, and no evicted
\* entry is newer than a retained one; otherwise it evicts nothing.
C3_SizeEviction ==
  pc = "main" =>
    LET kept == Range(regionCache) IN
    IF Cardinality(Unexpired) > MaxCacheEntries
    THEN /\ Len(regionCache) = MaxCacheEntries
         /\ Cardinality(kept) = MaxCacheEntries
         /\ kept \subseteq Unexpired
         /\ \A k \in kept : \A e \in Unexpired \ kept : e.ts <= k.ts
    ELSE kept = Unexpired /\ Len(regionCache) = Cardinality(Unexpired)

\* more unexpired entries than the limit were loaded and the oldest
\* timestamped one was evicted
C3_Witness ==
  /\ pc = "main"
  /\ Cardinality(Unexpired) = MaxCacheEntries + 1
  /\ \E e \in Unexpired \ Range(regionCache) :
       e.ts # NoTs /\ \A k \in Range(regionCache) : e.ts < k.ts
  /\ Len(regionCache) = MaxCacheEntries

\* C4: after the startup cleanup the cache never holds more than the
\* maximum number of entries, up to and including the save.
C4_CacheWithinLimit ==
  cleanedAt # -1 => Len(regionCache) <= MaxCacheEntries

\* C5: however main() ends, the cache was loaded once and written back
\* once, and (unless the write itself failed) the file holds the cache as
\* the run left it.
C5_LoadOnceSaveOnce ==
  pc \in {"returned", "done"} =>
    /\ loads = 1
    /\ saves = 1
    /\ exitPath # "writeFailed" => disk = [state |-> "ok", data |-> regionCache]

\* C6 as stated: the cleanup pass is given a longer TTL than the lookups.
C6_RetentionLongerThanFreshness ==
  (ttlClean # 0 /\ ttlLookup # 0) => ttlClean > ttlLookup

\* C6: the cleanup pass and the lookups are given the same TTL, so no
\* timestamped entry that the cleanup pass keeps is stale for a lookup made at
\* the time of the cleanup; an entry is stale in the cache only by ageing
\* after the cleanup.
C6_SingleTtl ==
  /\ (ttlClean # 0 /\ ttlLookup # 0) => ttlClean = ttlLookup
  /\ cleanedAt # -1 =>
       \A e \in Range(regionCache) : e.ts # NoTs => (cleanedAt - e.ts) < 168

\* the cleanup removed an entry of age 168 h, kept one of age 167 h, and a
\* later lookup found the kept one stale
C6_Witness ==
  /\ ttlLookup # 0
  /\ \E e \in Range(LoadedCache(disk)) :
       e.ts # NoTs /\ cleanedAt - e.ts = 168 /\ e.ip \notin Keys(regionCache)
  /\ cur.primary
  /\ \E e \in Range(LoadedCache(disk)) :
       e.ip = cur.ip /\ e.ts # NoTs /\ cleanedAt - e.ts = 167

----------------------------------------------------------------------------
(* Properties of resolveDomain, checked under SpecDns *)

\* all four octets parse as integers in [0,255]
WellFormed(ip) ==
  /\ Len(ip) = 4
  /\ \A k \in 1..Len(ip) :
       ip[k] \in DOMAIN ParseTable /\ ParseTable[ip[k]] \in 0..255

ServerIndex == 1..Len(serverEntries)

\* C7: resolveDomain returns the duplicate-free union of the well-formed
\* addresses that any attempt returned, and whichever attempts fail (by an
\* error or an empty answer) it reaches its return with every authority
\* queried.
C7_UnionOfValidAnswers ==
  /\ dpc \in {"call", "wait", "retry", "pace", "done"}
  /\ IsInjective(allIps)
  /\ Range(allIps) = {ip \in returned : WellFormed(ip)}
  /\ dpc = "done" => \A k \in ServerIndex : attempts[k] >= 1

\* two well-formed addresses were collected, malformed ones were returned
\* too, and one authority failed
C7_Witness ==
  /\ dpc = "done"
  /\ Len(allIps) = 2
  /\ \E ip \in returned : ~WellFormed(ip)
  /\ Len(failedServers) >= 1
  /\ Len(successfulServers) >= 2

\* C8: at the return, a critical authority whose first attempt failed (by
\* an error or by returning no valid address) was queried twice, every other
\* authority once.
C8_RetryPolicy ==
  dpc = "done" =>
    \A k \in ServerIndex :
      attempts[k] =
        IF IsCritical(serverEntries[k]) /\ serverEntries[k] \in Range(failedServers)
        THEN 2 ELSE 1

\* C9: at the return every authority is in exactly one of the two lists.
C9_AuthorityAccounting ==
  dpc = "done" =>
    /\ Len(successfulServers) + Len(failedServers) = Len(serverEntries)
    /\ Range(successfulServers) \cap Range(failedServers) = {}
    /\ Range(successfulServers) \cup Range(failedServers) = Range(serverEntries)

----------------------------------------------------------------------------
(* Properties of quickFilterIp, checked under SpecQuick *)

\* the ports of testPorts that pass the port test, in order
UsablePorts == SelectSeq(qports.items, PortInRange)

\* the delays of the connections that were established
ConnectedDelays == {qconn[k].delay : k \in {j \in 1..Len(qconn) : qconn[j].delay # Refused}}

\* the smallest of a non-empty set of delays
Least(S) == CHOOSE d \in S : \A e \in S : d <= e

\* C11: ports are tried once each, in order; the first connect under 200 ms
\* ends the probe with isGood and that delay; otherwise the address is
\* accepted with its best delay iff some port connected and the best delay
\* is at most 500 ms, and rejected with delay 0 if not.  An invalid address
\* and an out-of-range port cause no connection attempt.
C11_QuickFilterRule ==
  /\ Len(qconn) <= Len(UsablePorts)
  /\ \A k \in 1..Len(qconn) : qconn[k].port = UsablePorts[k]
  /\ ~isValidIp(qip) => qconn = <<>>
  /\ \A k \in 1..Len(qconn) :
       (qconn[k].delay # Refused /\ qconn[k].delay < 200) =>
          /\ k = Len(qconn)
          /\ qpc = "done"
          /\ qres = [isGood |-> TRUE, delay |-> qconn[k].delay]
  /\ (qpc = "done" /\ \A d \in ConnectedDelays : d >= 200) =>
       IF ConnectedDelays # {} /\ Least(ConnectedDelays) <= 500
       THEN qres = [isGood |-> TRUE, delay |-> Least(ConnectedDelays)]
       ELSE qres = [isGood |-> FALSE, delay |-> 0]
  /\ (qpc = "done" /\ isValidIp(qip) /\ qports.isArray
        /\ \A d \in ConnectedDelays : d >= 200) =>
       Len(qconn) = Len(UsablePorts)

\* the first port answered in 200 ms or more, the second in under 200 ms,
\* and the probe returned the second delay
C11_Witness ==
  /\ qpc = "done"
  /\ Len(qconn) = 2
  /\ qconn[1].delay >= 200
  /\ qconn[2].delay # Refused
  /\ qconn[2].delay < 200
  /\ qres = [isGood |-> TRUE, delay |-> qconn[2].delay]

----------------------------------------------------------------------------
(* Properties of the batch stages, checked under SpecStage *)

\* C12: in the quick-filter stage and in the geolocation stage the number
\* of probes in flight never exceeds maxWorkers.
C12_ParallelismBound ==
  skind \in {"quick", "geo"} => Cardinality(spend) <= maxWorkers

\* C13: in the stability stage at most one address is being probed at any
\* time.
C13_OneAddressAtATime ==
  skind = "ping" => Cardinality(spend) <= 1

\* C13, as the code has it: the stability stage probes one batch of at most
\* batchSize addresses at a time; every address before the current batch
\* has settled and none after it has started.
C13_OneBatchAtATime ==
  skind = "ping" =>
    /\ Cardinality(spend) <= batchSize
    /\ \A k \in spend : k > sbase /\ k <= sbase + batchSize
    /\ \A k \in 1..Len(sips) :
         /\ k <= sbase => sverdict[k] # "none"
         /\ k > sbase + batchSize => sverdict[k] = "none"

\* a full batch of two or more addresses is in flight, after an earlier
\* batch has been dealt with
C13_Witness ==
  /\ skind = "ping"
  /\ sbase > 0
  /\ Cardinality(spend) >= 2
  /\ Cardinality(spend) = batchSize

\* position of an address in the stage's input
Pos(ip) == CHOOSE k \in 1..Len(sips) : sips[k] = ip

\* C16: a stage returns only after all its probes have settled, whatever
\* their completion order and whichever of them reject; quickFilterIps and
\* testIpsConcurrently return the accepted addresses as a subsequence of the
\* input, getRegionsConcurrently one record per input in input order, each
\* with the verdict of its own address.
C16_InputOrderKept ==
  spc = "done" =>
    /\ spend = {}
    /\ \A k \in 1..Len(sips) : sverdict[k] # "none"
    /\ \A k \in 1..Len(sout) :
         /\ sout[k].ip \in Range(sips)
         /\ sout[k].val = sverdict[Pos(sout[k].ip)]
    /\ \A a, b \in 1..Len(sout) : a < b => Pos(sout[a].ip) < Pos(sout[b].ip)
    /\ skind \in {"quick", "ping"} =>
         {sout[k].ip : k \in 1..Len(sout)}
           = {sips[k] : k \in {j \in 1..Len(sips) : sverdict[j] = "accept"}}
    /\ skind = "geo" =>
         /\ Len(sout) = Len(sips)
         /\ \A k \in 1..Len(sips) : sout[k].ip = sips[k]

\* a concurrent stage returned two addresses in input order although the
\* later one settled first and another probe rejected
C16_Witness ==
  /\ spc = "done"
  /\ skind \in {"quick", "ping"}
  /\ Len(sout) = 2
  /\ \E a, b \in 1..Len(sorder) :
       /\ a < b
       /\ sorder[a] > sorder[b]
       /\ sverdict[sorder[a]] = "accept"
       /\ sverdict[sorder[b]] = "accept"
  /\ \E k \in 1..Len(sips) : sverdict[k] = "throw"

----------------------------------------------------------------------------
(* Properties of testIpAvailability, checked under SpecPing *)

\* the ping attempts in which some port connected
ConnectedAttempts ==
  {thist[k].attempt : k \in {j \in 1..Len(thist) : thist[j].delay # Refused}}

\* the best delay measured in ping attempt a
BestOf(a) ==
  Least({thist[k].delay : k \in {j \in 1..Len(thist) :
           thist[j].attempt = a /\ thist[j].delay # Refused}})

\* one sample per connected attempt, in attempt order
Samples == [k \in 1..Cardinality(ConnectedAttempts) |->
              BestOf(Ascending(ConnectedAttempts)[k])]

\* C14: the address is reported available iff some attempt connected on
\* some port, whatever the delay; if none connected the result is
\* unavailable with all-zero statistics.
C14_AvailableIffConnected ==
  tpc = "done" =>
    /\ tres.isAvailable = (ConnectedAttempts # {})
    /\ ConnectedAttempts = {} => tres = Unavailable

\* C15: the statistics of an available address are taken over one sample
\* per connected attempt and none per failed attempt: the minimum, the
\* mean and the population variance of exactly those samples.
C15_OneSamplePerAttempt ==
  (tpc = "done" /\ tres.isAvailable) =>
    /\ Samples # <<>>
    /\ tres.minDelay = MinOf(Samples)
    /\ tres.avgDelay = Mean100(Samples)
    /\ tres.stability = Variance100(Samples)

----------------------------------------------------------------------------
(* Properties of testIpBandwidth, checked under SpecBw *)

\* testIpBandwidth returned for a valid address without any download
\* having delivered a byte
NoBytesAtAll ==
  /\ bpc = "done"
  /\ isValidIp(bip)
  /\ ~bgot

\* C17: when every download yields 0 bytes the result is fast=false with
\* bandwidth=0, and one single-attempt reachability probe supplies the
\* latency (0 if that probe fails too).
C17_NoBytesNotFast ==
  NoBytesAtAll =>
    /\ bres.isFast = FALSE
    /\ bres.bandwidth = 0
    /\ bprobe.calls = 1
    /\ bres.latency = IF bprobe.isAvailable THEN bprobe.minDelay ELSE 0

\* C17, as the code has it: when every download yields 0 bytes the result
\* has bandwidth=0, one single-attempt reachability probe is made, and the
\* result is fast exactly if that probe found the address available, with
\* the probe's minDelay as latency (0 if it did not).
C17_NoBytesFastIffReachable ==
  NoBytesAtAll =>
    /\ bres.bandwidth = 0
    /\ bprobe.calls = 1
    /\ bres.isFast = bprobe.isAvailable
    /\ bres.latency = IF bprobe.isAvailable THEN bprobe.minDelay ELSE 0

\* the last download ran up to the time cap without a byte, the
\* reachability probe succeeded, and the address was reported fast
C17_Witness ==
  /\ NoBytesAtAll
  /\ bdownloads = bcount * NumUrls
  /\ belapsed >= TimeCapSecs
  /\ bprobe.isAvailable
  /\ bres = [isFast |-> TRUE, bandwidth |-> 0, latency |-> bprobe.minDelay]

\* C18: a download in progress has exceeded neither the time cap nor the
\* byte cap: it is stopped as soon as one of them is reached, data or no
\* data.
C18_TransferWithinCaps ==
  bpc = "stream" =>
    /\ belapsed <= TimeCapSecs
    /\ dataDownloaded <= ByteCapMiB

----------------------------------------------------------------------------
(* Properties of the advanced stages, checked under SpecAdv *)

\* latencyFilteredIps holds k of the candidates (all of them if there are
\* fewer), in ascending avgDelay order, and no candidate left out has a
\* lower avgDelay than one that was kept
LowestKept(k) ==
  /\ Len(latencyFilteredIps) = Min(k, Len(quickFilterResults))
  /\ Range(latencyFilteredIps) \subseteq Range(quickFilterResults)
  /\ IsInjective(latencyFilteredIps)
  /\ \A a, b \in 1..Len(latencyFilteredIps) :
       a < b => latencyFilteredIps[a].avgDelay <= latencyFilteredIps[b].avgDelay
  /\ \A x \in Range(latencyFilteredIps) :
       \A y \in Range(quickFilterResults) \ Range(latencyFilteredIps) :
         x.avgDelay <= y.avgDelay

\* latencyFilterIps has run on a non-empty quickFilterResults
LatencyFiltered == apc # "reprobe" /\ quickFilterResults # <<>>

\* C19: latencyFilterIps keeps the first ceil(n * pct / 100) entries of the
\* ascending-avgDelay ordering, and at least 1 of a non-empty input.
C19_KeepsCeiling ==
  LatencyFiltered =>
    LowestKept(Max(1, (Len(quickFilterResults) * apct + 99) \div 100))

\* C19, as the code has it: latencyFilterIps keeps the first
\* floor(n * pct / 100) entries of the ascending-avgDelay ordering, and at
\* least 1 of a non-empty input.
C19_KeepsFloor ==
  LatencyFiltered =>
    LowestKept(Max(1, (Len(quickFilterResults) * apct) \div 100))

\* four candidates at 30 percent: one is kept, where rounding up keeps two
C19_Witness ==
  /\ LatencyFiltered
  /\ apct = 30
  /\ Len(quickFilterResults) = 4
  /\ Len(latencyFilteredIps) = 1
  /\ \E y \in Range(quickFilterResults) :
       y.avgDelay > latencyFilteredIps[1].avgDelay

\* position of a record in bandwidthResults
TestedAt(item) ==
  CHOOSE k \in 1..Len(bandwidthResults) : bandwidthResults[k] = item

\* C20: the ranked output holds the bandwidth-tested candidates by score
\* descending, and candidates of equal score keep the order in which the
\* bandwidth test returned them.
C20_RankedByScoreStable ==
  apc = "done" =>
    /\ Len(availableIps) = Len(bandwidthResults)
    /\ Range(availableIps) = Range(bandwidthResults)
    /\ \A a, b \in 1..Len(availableIps) :
         a < b =>
           /\ availableIps[a].score >= availableIps[b].score
           /\ availableIps[a].score = availableIps[b].score =>
                TestedAt(availableIps[a]) < TestedAt(availableIps[b])

\* three candidates were ranked: the sort moved the best one to the front
\* and left two of equal score in their bandwidth-test order
C20_Witness ==
  /\ apc = "done"
  /\ Len(availableIps) = 3
  /\ availableIps # bandwidthResults
  /\ availableIps[1].score > availableIps[2].score
  /\ availableIps[2].score = availableIps[3].score

----------------------------------------------------------------------------
(* Further properties of start() and the cache, checked under SpecGeo *)

\* a step in which cleanExpiredCache runs
CleanupRuns == cleanedAt' # cleanedAt \/ ttlClean' # ttlClean

\* a getIpRegion call is waiting for a geolocation service
LookupPending == lk # "none"

\* C24: cleanExpiredCache starts and completes with no getIpRegion call
\* pending: it runs once, in start(), before main and so before the first
\* lookup, and every lookup is made after it has finished.
C24_CleanupOutsideLookups ==
  /\ [][CleanupRuns =>
         /\ pc = "loaded"
         /\ ~LookupPending
         /\ ~LookupPending'
         /\ cur = NoCall
         /\ cur' = NoCall]_vars
  /\ [](LookupPending => (cleanedAt # -1 /\ pc \in {"geo1", "geo2"}))

\* the cleanup has run and a lookup is now waiting for the primary service
C24_Witness ==
  /\ cleanedAt = StartHour
  /\ ttlClean = cacheTtlHours
  /\ lk = "primary"
  /\ cur.ip = "1.0.0.1"

\* the cache file is absent or cannot be parsed
BadCacheFile == disk.state \in {"absent", "corrupt"}

\* a step in which loadRegionCache runs
LoadRuns == loads' = loads + 1

\* C28: loadRegionCache on an absent or corrupt cache file leaves the
\* in-memory cache empty and returns normally; the run goes on, and until
\* the cache is saved every entry it holds was made by a lookup of this run.
C28_BadCacheFileGivesEmptyCache ==
  /\ [][(LoadRuns /\ BadCacheFile) =>
         (regionCache' = <<>> /\ pc' = "loaded" /\ exitPath' = "none")]_vars
  /\ []((BadCacheFile /\ saves = 0 /\ pc # "start") =>
          \A k \in 1..Len(regionCache) :
            /\ regionCache[k].ts >= StartHour
            /\ regionCache[k].region \in {"US", "DE", "Unknown"})

\* with a corrupt cache file the run has reached saveRegionCache, having
\* looked up and cached an address on the way
C28_Witness ==
  /\ disk.state = "corrupt"
  /\ pc = "save"
  /\ saves = 0
  /\ Len(regionCache) > 0

\* C31: the second getRegionsConcurrently pass queries no geolocation
\* service: every getIpRegion call it makes is served from the cache, with
\* the code the cache holds for the address since the first pass, and no
\* request is ever pending during it.
C31_SecondPassFromCache ==
  /\ [](pc = "geo2" => ~LookupPending)
  /\ [][(pc = "geo2" /\ LookupCalled) => ServedFromCache(Head(queue))]_vars

\* the cache holds for ip an entry without a timestamp
LegacyEntry(ip) ==
  /\ ip \in Keys(regionCache)
  /\ Entry(regionCache, ip).ts = NoTs

\* the entries without a timestamp, and the timestamped entries that have
\* not reached the retention TTL
LegacyEntries(c) == {e \in Range(c) : e.ts = NoTs}

RetainedEntries(c) == {e \in Range(c) : e.ts # NoTs /\ now - e.ts < 168}

\* a lookup of an address with a legacy entry returns the entry's value,
\* queries no service and leaves the cache as it is
C35_LegacyServed ==
  (LookupCalled /\ LegacyEntry(Head(queue))) => ServedFromCache(Head(queue))

\* a legacy entry leaves the cache, or changes, only in cleanExpiredCache,
\* only when more entries than the limit are left after the expiry pass,
\* and then no timestamped entry goes while a legacy entry stays
C35_LegacyRemoval ==
  /\ (LegacyEntries(regionCache) \ Range(regionCache') # {}) =>
       /\ CleanupRuns
       /\ Cardinality(LegacyEntries(regionCache))
            + Cardinality(RetainedEntries(regionCache)) > MaxCacheEntries
       /\ Len(regionCache') = MaxCacheEntries
  /\ CleanupRuns =>
       (RetainedEntries(regionCache) \ Range(regionCache') # {} =>
          LegacyEntries(regionCache') = {})

\* C35: a lookup returns a legacy (timestamp-less) entry's value without an
\* age check, a network request or a rewrite; the expiry pass of
\* cleanExpiredCache never removes such an entry; only the size-cap eviction
\* removes it, and that eviction removes every timestamp-less entry before
\* any timestamped one.
C35_LegacyEntries == [][C35_LegacyServed /\ C35_LegacyRemoval]_vars

\* of two legacy entries and a fresh timestamped one the eviction took the
\* first legacy entry; the other was later served by a lookup, well after
\* any TTL could have been counted from, and is still in the cache
C35_Witness ==
  /\ cleanedAt # -1
  /\ Cardinality(LegacyEntries(LoadedCache(disk))) = 2
  /\ Cardinality(LegacyEntries(regionCache)) = 1
  /\ Cardinality(RetainedEntries(regionCache)) = 1
  /\ cur.done
  /\ ~cur.primary
  /\ LegacyEntry(cur.ip)
  /\ cur.code = Entry(regionCache, cur.ip).region
  /\ saves = 0

----------------------------------------------------------------------------
(* Properties of the library functions, checked under SpecFn *)

ScoreCalled == fpc = "done" /\ fgiven.name = "calculateScore"

\* the three components of the score, in hundredths of a point
LatencyScore100(avgDelay) ==
  IF avgDelay >= 20000 THEN 0 ELSE (20000 - avgDelay) \div 2
BandwidthScore100(bandwidth) ==
  IF bandwidth >= 1000 THEN 10000 ELSE bandwidth * 10
StabilityScore100(stability) ==
  IF stability >= 100000 THEN 0 ELSE 10000 - stability \div 10

\* n / 10 rounded to the nearest integer, halves upwards
RoundTenth(n) == (n + 5) \div 10

\* C21: calculateScore(minDelay, avgDelay, bandwidth, stability) is
\* 0.4 * max(0, 100 - avgDelay/2) + 0.3 * min(100, bandwidth*10)
\* + 0.3 * max(0, 100 - stability/10) rounded to two decimals;
\* score(10, 10, 10, 0) is 98.00; the result is the same for every minDelay
\* and lies between 0 and 100.
C21_WeightedScore ==
  ScoreCalled =>
    /\ fret.value = RoundTenth(4 * LatencyScore100(fgiven.avgDelay)
                                 + 3 * BandwidthScore100(fgiven.bandwidth)
                                 + 3 * StabilityScore100(fgiven.stability))
    /\ (fgiven.avgDelay = 1000 /\ fgiven.bandwidth = 1000
          /\ fgiven.stability = 0) => fret.value = 9800
    /\ \A m \in ScoreMinDelays :
         calculateScore(m, fgiven.avgDelay, fgiven.bandwidth,
                        fgiven.stability) = fret.value
    /\ fret.value >= 0
    /\ fret.value <= 10000

\* score(10, 10, 10, 0) has been computed and is 98.00
C21_Witness ==
  /\ ScoreCalled
  /\ fgiven.minDelay = 10
  /\ fgiven.avgDelay = 1000
  /\ fgiven.bandwidth = 1000
  /\ fgiven.stability = 0
  /\ fret.value = 9800

----------------------------------------------------------------------------
(* Properties of the pipeline, checked under SpecMain *)

Occurrences(s, x) == Cardinality({k \in 1..Len(s) : s[k] = x})

\* the addresses main itself has put to quickFilterIp again (index.js:170)
\* and got an answer for
Reprobes ==
  IF apc = "off" THEN <<>>
  ELSE IF apc = "reprobe" THEN SubSeq(afiltered, 1, ai - 1)
  ELSE afiltered

\* quickFilterIp calls made for ip so far in this run
QuickProbes(ip) == Occurrences(probed, ip) + Occurrences(Reprobes, ip)

\* C22: within one pipeline run each address undergoes the quick-filter
\* probe at most once.
C22_SingleQuickProbe == \A ip \in Range(GeoIps) : QuickProbes(ip) <= 1

EarlyReturns == {"noDomains", "noIps", "noneFiltered"}

\* the stages main has started when it takes the given early return
StartedBefore(path) ==
  CASE path = "noDomains" -> {}
    [] path = "noIps" -> {"resolve"}
    [] path = "noneFiltered" -> {"resolve", "quickFilter"}

\* C23 as stated: when no domains are configured, no address is resolved or
\* no address passes the quick filter, main ends without raising and
\* without starting a later stage, and no output file exists after the run.
C23_NoOutputFileAfterEarlyReturn ==
  mexit \in EarlyReturns =>
    /\ mpc = "returned"
    /\ stages = StartedBefore(mexit)
    /\ apc = "off"
    /\ files \cap filesToDelete = {}

\* C23: on each of the three early returns main ends by a return statement,
\* has started no later stage and has written no output file; the output
\* files present afterwards are exactly the old ones whose removal failed.
C23_EarlyReturnWritesNothing ==
  mexit \in EarlyReturns =>
    /\ mpc = "returned"
    /\ stages = StartedBefore(mexit)
    /\ apc = "off"
    /\ files = undeleted

\* no address passed the quick filter; the old DNSIPlist.txt is gone and
\* the old Ranking.txt, which could not be removed, is still there
C23_Witness ==
  /\ mexit = "noneFiltered"
  /\ Len(uniqueIps) > 0
  /\ undeleted = {"Ranking.txt"}
  /\ files = {"Ranking.txt"}

----------------------------------------------------------------------------
(* A further property of testIpAvailability, checked under SpecPing *)

\* testIpAvailability has returned after five attempts on port 443 of the
\* steady host
SteadyRunDone ==
  /\ tpc = "done"
  /\ tscript = SteadyHost
  /\ isValidIp(tip)
  /\ Len(thist) = 5

\* C25 as stated: five attempts on one port with connect delays
\* 50, 52, 48, 51, 49 give available, minDelay 48, avgDelay 50.0 and
\* stability 1.6.
C25_SteadyHostStability16 ==
  SteadyRunDone =>
    tres = [isAvailable |-> TRUE, minDelay |-> 48, avgDelay |-> 5000,
            stability |-> 160]

\* C25: five attempts on one port with connect delays 50, 52, 48, 51, 49
\* give available, minDelay 48, avgDelay 50.0 and stability 2.0, the
\* population variance of the recorded delays.
C25_SteadyHostStatistics ==
  SteadyRunDone =>
    tres = [isAvailable |-> TRUE, minDelay |-> 48, avgDelay |-> 5000,
            stability |-> 200]

\* the five connections were made with the five delays, and the result is
\* in
C25_Witness ==
  /\ SteadyRunDone
  /\ [k \in 1..5 |-> thist[k].delay] = <<50, 52, 48, 51, 49>>
  /\ tres.isAvailable
  /\ tres.stability = 200

----------------------------------------------------------------------------
(* Properties of latencyFilterIps and the freshness tests, under SpecFn *)

LatencyCalled == fpc = "done" /\ fgiven.name = "latencyFilterIps"

\* the place of a candidate in the list that was passed in
InputPos(e) ==
  CHOOSE k \in 1..Len(fgiven.ipsWithLatency) : fgiven.ipsWithLatency[k] = e

\* C26: latencyFilterIps returns the lowest-avgDelay candidates in
\* ascending avgDelay order, for 10 candidates and 30 percent exactly the 3
\* lowest, with candidates of equal delay in input order, and leaves the
\* sequence it was given as it was.
C26_LowestAscendingStable ==
  LatencyCalled =>
    LET given == fgiven.ipsWithLatency
        out == fret.value
        rest == Range(given) \ Range(out)
    IN  /\ Range(out) \subseteq Range(given)
        /\ IsInjective(out)
        /\ Len(given) > 0 => Len(out) >= 1
        /\ Len(out) <= Len(given)
        /\ (Len(given) = 10 /\ fgiven.percentage = 30) => Len(out) = 3
        /\ \A a, b \in 1..Len(out) :
             a < b =>
               \/ out[a].avgDelay < out[b].avgDelay
               \/ /\ out[a].avgDelay = out[b].avgDelay
                  /\ InputPos(out[a]) < InputPos(out[b])
        /\ \A o \in Range(out) : \A e \in rest : o.avgDelay <= e.avgDelay
        /\ fargs.ipsWithLatency = given

\* ten candidates at 30 percent: three are returned, the two of delay 10
\* in input order and then the first of the two of delay 20, and the list
\* passed in still has its ten candidates in their places
C26_Witness ==
  /\ LatencyCalled
  /\ Len(fgiven.ipsWithLatency) = 10
  /\ fgiven.ipsWithLatency[1].avgDelay = 5000
  /\ fgiven.percentage = 30
  /\ [k \in 1..Len(fret.value) |-> fret.value[k].ip] = <<6, 9, 2>>
  /\ fargs.ipsWithLatency = fgiven.ipsWithLatency

CacheTestsCalled == fpc = "done" /\ fgiven.name = "cacheTests"

\* C27: isCacheValid(timestamp, ttlHours) is true exactly when a timestamp
\* is present and now - timestamp < ttlHours, so an age of exactly ttlHours
\* is invalid and a missing timestamp is invalid; with the same ttlHours
\* the expiry loop of cleanExpiredCache removes an entry exactly when a
\* lookup treats it as stale.
C27_ValidityAndExpiryAgree ==
  CacheTestsCalled =>
    LET age == fgiven.now - fgiven.timestamp IN
    /\ fret.valid = (fgiven.timestamp # NoTs /\ age < fgiven.ttlHours)
    /\ (fgiven.timestamp # NoTs /\ age = fgiven.ttlHours) => ~fret.valid
    /\ fgiven.timestamp = NoTs => ~fret.valid
    /\ fret.expired = (fret.probe = "miss")
    /\ fgiven.timestamp # NoTs => (fret.expired = ~fret.valid)

\* an entry exactly ttlHours old: invalid, removed by the expiry loop and
\* looked up afresh
C27_Witness ==
  /\ CacheTestsCalled
  /\ fgiven.ttlHours = 168
  /\ fgiven.now - fgiven.timestamp = 168
  /\ ~fret.valid
  /\ fret.expired
  /\ fret.probe = "miss"

----------------------------------------------------------------------------
(* A further property of testIpBandwidth, checked under SpecBw *)

\* the number of the download in hand, counting over attempts and urls
DownloadNumber == battempt * NumUrls + burl

\* the largest speed measured so far, 0 when there is none
BestMeasured ==
  IF bmeasured = {} THEN 0
  ELSE CHOOSE m \in bmeasured : \A n \in bmeasured : n <= m

\* 5 Mbps in bits per second
FastEnough(m) == m > 5 * 1000000

C29_State ==
  \* the downloads are issued in turn, at most attempts x endpoints of them
  /\ bdownloads <= bcount * NumUrls
  /\ bpc \in {"request", "stream"} => bdownloads = DownloadNumber
  \* a speed above 5 Mbps has ended the probe
  /\ (\E m \in bmeasured : FastEnough(m)) => bpc = "done"
  \* the probe ends with a result: the best measurement, or the fallback
  /\ (bpc = "done" /\ bmeasured # {}) =>
       (bres.isFast /\ bres.bandwidth = BestMeasured /\ bprobe.calls = 0)
  /\ (bpc = "done" /\ bmeasured = {}) => bres.bandwidth = 0
  /\ \A m \in bmeasured : m > 0

C29_Step ==
  \* a download that ends without a measurement, by a transport error or
  \* otherwise, is followed by the next download, or by the end of the loops
  /\ (bpc \in {"request", "stream"} /\ bpc' # "stream"
        /\ bmeasured' = bmeasured) =>
       \/ /\ bpc' = "request"
          /\ bdownloads' = bdownloads + 1
          /\ DownloadNumber' = DownloadNumber + 1
       \/ /\ DownloadNumber = bcount * NumUrls
          /\ bpc' \in {"fallback", "done"}
          /\ bdownloads' = bdownloads
  \* after a measurement above 5 Mbps nothing more is downloaded
  /\ (\E m \in bmeasured' \ bmeasured : FastEnough(m)) =>
       (bpc' = "done" /\ bdownloads' = bdownloads)
  \* a call that has returned does nothing more
  /\ bpc = "done" => UNCHANGED bwVars

\* C29: testIpBandwidth never raises: a transport error on one download
\* moves on to the next endpoint or attempt, at most attempts x endpoints
\* downloads are issued, the reported throughput is the maximum of the
\* positive measurements, and the probe returns, issuing no further
\* download, after the first measurement above 5 Mbps.
C29_BandwidthProbeContract == [](C29_State) /\ [][C29_Step]_vars

\* a slow measurement, then a failed download, then a measurement above
\* 5 Mbps that ended the probe before the last download was due
C29_Witness ==
  /\ bpc = "done"
  /\ bcount = 2
  /\ bdownloads = 3
  /\ Cardinality(bmeasured) = 2
  /\ FastEnough(bres.bandwidth)
  /\ bres.bandwidth = BestMeasured

----------------------------------------------------------------------------
(* A further property of the pipeline, checked under SpecMain *)

\* the addresses of a sequence of result records
IpsOf(records) == [k \in 1..Len(records) |-> records[k].ip]

\* the address sequences of the stages, from the resolved unique set to
\* the final ranking
StageSequences ==
  <<uniqueIps, filteredIps, IpsOf(quickFilterResults),
    IpsOf(latencyFilteredIps), IpsOf(tcpPingResults), IpsOf(bandwidthResults),
    IpsOf(availableIps)>>

\* C30: at every point of a run each stage's address sequence is free of
\* duplicates and holds only addresses of the stage before it: ranked,
\* bandwidth-tested, stability-available, latency-filtered, quick-filtered,
\* resolved unique set, whatever repetitions the domains' answers hold.
C30_PipelineNarrows ==
  /\ \A k \in 1..Len(StageSequences) : IsInjective(StageSequences[k])
  /\ \A k \in 2..Len(StageSequences) :
       Range(StageSequences[k]) \subseteq Range(StageSequences[k - 1])
  /\ mpc \notin {"clean", "load", "resolve"} =>
       Range(uniqueIps) = Range(allIpsMain)

\* two domains gave four addresses, one of them twice; three unique
\* addresses passed the quick filter and two of them were ranked
C30_Witness ==
  /\ mexit = "completed"
  /\ Len(allIpsMain) = 4
  /\ ~IsInjective(allIpsMain)
  /\ Len(uniqueIps) = 3
  /\ Len(filteredIps) = 3
  /\ Len(availableIps) = 2

----------------------------------------------------------------------------
(* Properties of batchBandwidthTest, checked under SpecBatch *)

\* the records of the addresses reported fast among the first n of ipData,
\* in input order, each scored from its own statistics and its own report
RECURSIVE FastRecords(_)
FastRecords(n) ==
  IF n = 0 THEN <<>>
  ELSE FastRecords(n - 1) \o
         (IF kreports[n].isFast
          THEN <<[ip |-> kdata[n].ip, minDelay |-> kdata[n].minDelay,
                  avgDelay |-> kdata[n].avgDelay,
                  stability |-> kdata[n].stability,
                  bandwidth |-> kreports[n].bandwidth,
                  latency |-> kreports[n].latency,
                  score |-> calculateScore(kdata[n].minDelay, kdata[n].avgDelay,
                                           kreports[n].bandwidth,
                                           kdata[n].stability)]>>
          ELSE <<>>)

\* C32: batchBandwidthTest has at most one bandwidth probe in flight, the
\* probe of ipData[i], started only after every earlier one has returned;
\* the array it builds and returns holds, in input order, exactly the
\* addresses whose probe reported isFast, each with the score calculateScore
\* gives for its own statistics and measured bandwidth, so that no address
\* reported not fast is in it.
C32_SequentialFastOnly ==
  /\ Cardinality(kflight) <= 1
  /\ kflight \subseteq {ki}
  /\ kflight # {} => Len(kreports) = ki - 1
  /\ kpc \in {"loop", "returned"} =>
       (kflight = {} /\ Len(kreports) = ki - 1)
  /\ kpc # "off" => kresults = FastRecords(Len(kreports))
  /\ kpc = "returned" => Len(kreports) = Len(kdata)
  /\ \A k \in 1..Len(kreports) :
       ~kreports[k].isFast =>
          \A j \in 1..Len(kresults) : kresults[j].ip # kdata[k].ip

\* three addresses were probed in turn; the first and the third were fast,
\* the second was not, and the call returned the two fast ones
C32_Witness ==
  /\ kpc = "returned"
  /\ Len(kdata) = 3
  /\ kreports[1].isFast /\ ~kreports[2].isFast /\ kreports[3].isFast
  /\ Len(kresults) = 2
  /\ kresults[1].ip = kdata[1].ip
  /\ kresults[2].ip = kdata[3].ip
  /\ kresults[2].bandwidth = 500

----------------------------------------------------------------------------
(* Properties of the grouping and formatting of main, checked under        *)
(* SpecFormat                                                              *)

\* the pass has produced its records
Formatted == gpc \in {"save", "done"}

\* the latency measured for an address of the pass
MeasuredLatency(ip) ==
  gsource[CHOOSE k \in 1..Len(gsource) : gsource[k].ip = ip].minDelay

\* the places (group, position) at which an address stands in the groups
PlacesOf(ip) ==
  {p \in UNION {{<<g, j>> : j \in 1..Len(regionGroups[g].items)} :
                  g \in 1..Len(regionGroups)} :
     regionGroups[p[1]].items[p[2]].ip = ip}

\* the position of the k-th record among the records of its region
PlaceInRegion(k) ==
  Cardinality({j \in 1..k : result[j].region = result[k].region})

\* the two decimal digits of n
TwoDigits(n) == Digits[(n \div 10) + 1] \o Digits[(n % 10) + 1]

\* every geolocated address stands in exactly one group, once, and has
\* one record
C33_OneGroupEach ==
  Formatted =>
    /\ \A k \in 1..Len(regionResults) :
         /\ Cardinality(PlacesOf(regionResults[k].ip)) = 1
         /\ Cardinality({j \in 1..Len(result) :
                           result[j].ip = regionResults[k].ip}) = 1
    /\ Len(result) = Len(regionResults)

\* the records of a region carry the ranks 01, 02, ... in their order
C33_RanksConsecutive ==
  Formatted =>
    \A k \in 1..Len(result) :
      /\ result[k].rank = TwoDigits(PlaceInRegion(k))
      /\ k > 1 => (result[k].region = result[k - 1].region
                     \/ \A j \in 1..(k - 1) : result[j].region # result[k].region)

\* the records of a region stand in ascending order of measured latency
C33_FasterFirst ==
  Formatted =>
    \A j, k \in 1..Len(result) :
      (j < k /\ result[j].region = result[k].region) =>
         MeasuredLatency(result[j].ip) <= MeasuredLatency(result[k].ip)

\* C33: every geolocated address appears in exactly one region group;
\* within each group the records are in ascending order of measured latency
\* and carry the consecutive two-digit ranks 01, 02, ...
C33_RegionGrouping ==
  /\ C33_OneGroupEach
  /\ C33_FasterFirst
  /\ C33_RanksConsecutive

\* C34: every formatted record carries, after the '#', the country code
\* that geolocation returned for the record's address.
C34_RecordCarriesCode ==
  Formatted =>
    \A k \in 1..Len(result) :
      \E j \in 1..Len(regionResults) :
        /\ regionResults[j].ip = result[k].ip
        /\ result[k].code = regionResults[j].regionCode

====
